---- MODULE Spec2Model ----
(***************************************************************************)
(* Offensive Security Program MVP: the relational entity store             *)
(* (models.py), the request handlers of the routers, identity resolution   *)
(* by API key, and the report assembler, as a state machine over the       *)
(* committed database contents.                                            *)
(*                                                                         *)
(* A table is a function from the primary keys present to rows (records).  *)
(* A handler that runs to completion inside one unit of work is one        *)
(* action; create_engagement is also modelled statement by statement       *)
(* (SpecConc) for requests that overlap in time.                           *)
(***************************************************************************)
EXTENDS Integers, Sequences, FiniteSets, TLC

VARIABLES
    users,              \* table users
    issued,             \* how many tokens secrets.token_urlsafe has produced
    program_years,      \* table program_years
    engagements,        \* table engagements
    assets,             \* table assets
    engagement_assets,  \* table engagement_assets
    findings,           \* table findings
    finding_assets,     \* table finding_assets
    timeline_events,    \* table timeline_events
    comments,           \* table comments
    finding_templates,  \* table finding_templates
    requests,           \* create_engagement requests in flight (SpecConc)
    writer,             \* the request holding the SQLite write lock, or None
    resp                \* the response to the most recent request

vars == <<users, issued, program_years, engagements, assets, engagement_assets,
          findings, finding_assets, timeline_events, comments,
          finding_templates, requests, writer, resp>>

tables == <<users, issued, program_years, engagements, assets,
            engagement_assets, findings, finding_assets, timeline_events,
            comments, finding_templates>>

----------------------------------------------------------------------------
(* Bounds of the model *)

MaxTokens == 3
MaxUserId == 2
MaxEngagementId == 2
MaxFindingId == 2
MaxRequests == 2
MaxAssetId == 1
MaxStoreEngagementId == 1
MaxEngagementAssetId == 1
MaxStoreFindingId == 1
MaxFindingAssetId == 1
MaxTimelineEventId == 1
MaxCommentId == 2
MaxStoreRows == 8
MaxReportRows == 4
MaxSharingEngagementId == 2
MaxSharedLinkId == 2
MaxIdentityUserId == 2
MaxExportEngagementId == 1
MaxExportFindingId == 3
MaxColumnEngagementId == 1
MaxColumnFindingId == 1
MaxColumnAssetId == 2
MaxColumnLinkId == 2
MaxScopeEngagementId == 1
MaxScopeFindingId == 1
MaxScopeAssetId == 1
MaxScopeLinkId == 1
MaxNestedEngagementId == 1
MaxNestedFindingId == 1
MaxNestedTimelineEventId == 1
MaxNestedCommentId == 1
MaxYearEngagementId == 2
MaxUpdatedAt == 2
MaxThreadUserId == 2
MaxThreadEngagementId == 2
MaxThreadCommentId == 2
MaxTemplateId == 2
MaxTemplateEngagementId == 1
MaxTemplateFindingId == 1
MaxBootEngagementId == 1
MaxListingEngagementId == 2
MaxListingFindingId == 2

----------------------------------------------------------------------------
(* Values *)

\* Python None, SQL NULL, an absent header
None == -1

\* the empty string "" as an X-API-Key header value
EmptyString == 0

\* the values secrets.token_urlsafe(32) yields, in the order it yields them
Tokens == 1..MaxTokens

\* NULL in a text or date column, and None in an Optional[str] field: a
\* value apart from every string a client sends
Null == "<NULL>"

\* not text: the values of an Optional[str] that Python treats as false
Blank(text) == text \in {Null, ""}

\* Model(**given): the columns given, the column defaults for the rest
Row(defaults, given) ==
    [c \in DOMAIN defaults |->
        IF c \in DOMAIN given THEN given[c] ELSE defaults[c]]

\* the columns of models.Engagement and what each holds when not given
EngagementDefaults ==
    [name |-> Null, engagement_type |-> Null, business_unit |-> Null,
     status |-> "Planned", start_date |-> Null, end_date |-> Null,
     scope_summary |-> Null, objectives |-> Null, methodology |-> Null,
     exec_summary |-> Null, recommendations_overall |-> Null,
     program_year_id |-> None, owner_id |-> None, updated_at |-> 0]

\* the columns of models.Asset
AssetDefaults ==
    [name |-> Null, asset_type |-> Null, identifier |-> Null]

\* the columns of models.Finding
FindingDefaults ==
    [engagement_id |-> None, template_id |-> None, title |-> Null,
     severity |-> Null, status |-> "New", description |-> Null,
     impact |-> Null, poc |-> Null, recommendation |-> Null,
     attack_techniques |-> Null, remediation_status |-> "Not-Started",
     remediation_owner |-> Null, due_date |-> Null,
     detection_status |-> Null, risk_accepted |-> FALSE,
     created_by_id |-> None]

\* `if x:` for an Optional[str]
Truthy(x) == x # None /\ x # EmptyString

Roles == {"red", "blue", "manager", "admin"}

Years == {2024, 2025}

\* the closed enumeration of Finding.severity (a comment in the source)
CanonicalSeverities == {"Info", "Low", "Medium", "High", "Critical"}

----------------------------------------------------------------------------
(* Tables *)

\* the largest primary key of a table, 0 when it is empty
MaxId(t) ==
    IF DOMAIN t = {} THEN 0
    ELSE CHOOSE m \in DOMAIN t : \A n \in DOMAIN t : n <= m

\* the key SQLite gives the next row of an INTEGER PRIMARY KEY table
NextId(t) == MaxId(t) + 1

\* session.add(row) followed by the INSERT of the flush
Insert(t, row) ==
    [i \in DOMAIN t \cup {NextId(t)} |-> IF i \in DOMAIN t THEN t[i] ELSE row]

\* the rows left after deleting the keys in gone
Remove(t, gone) == [i \in DOMAIN t \ gone |-> t[i]]

\* the table with no row
Empty == [i \in {} |-> None]

RECURSIVE Ascending(_)
\* the keys of S in ascending order: the order rows are loaded in
Ascending(S) ==
    IF S = {} THEN <<>>
    ELSE LET m == CHOOSE x \in S : \A y \in S : x <= y
         IN  <<m>> \o Ascending(S \ {m})

----------------------------------------------------------------------------
(* Identity resolution: routers/users.py get_current_user *)

\* identity resolution that requires a credential: no default identity
get_current_user_required(x_api_key) ==
    LET match == {u \in DOMAIN users : users[u].api_key = x_api_key}
    IN  IF ~Truthy(x_api_key) \/ match = {}
        THEN {[status |-> 401, user |-> None]}
        ELSE {[status |-> 200, user |-> u] : u \in match}

\* the possible outcomes of resolving the presented X-API-Key header
get_current_user(x_api_key) ==
    IF Truthy(x_api_key)
    THEN LET match == {u \in DOMAIN users : users[u].api_key = x_api_key}
         IN  IF match = {}
             THEN {[status |-> 401, user |-> None]}
             ELSE {[status |-> 200, user |-> u] : u \in match}
    ELSE IF DOMAIN users = {}
         THEN {[status |-> 500, user |-> None]}
         ELSE {[status |-> 200, user |-> u] : u \in DOMAIN users}

\* the detail of the HTTPException get_current_user raises
AuthDetail(auth) ==
    IF auth.status = 401 THEN "Invalid API key" ELSE "No users in database"

\* a response: the operation, its status code, the credential presented,
\* the identity resolved for it (None when none was) and the body
Response(op, status, x_api_key, user, body) ==
    [op |-> op, status |-> status, x_api_key |-> x_api_key, user |-> user,
     body |-> body]

\* the body of an HTTPException
Detail(text) == [detail |-> text]

\* a request whose dependency get_current_user raised: the handler body
\* never runs
Rejected(op, x_api_key, auth) ==
    /\ auth.status # 200
    /\ resp' = Response(op, auth.status, x_api_key, None,
                        Detail(AuthDetail(auth)))
    /\ UNCHANGED <<tables, requests, writer>>

----------------------------------------------------------------------------
(* Initial state: the tables created and seed_user run at import *)

seed_user_row ==
    [username |-> "malcolm", role |-> "admin", api_key |-> 1]

Init ==
    /\ users = Insert(Empty, seed_user_row)
    /\ issued = 1
    /\ program_years = Empty
    /\ engagements = Empty
    /\ assets = Empty
    /\ engagement_assets = Empty
    /\ findings = Empty
    /\ finding_assets = Empty
    /\ timeline_events = Empty
    /\ comments = Empty
    /\ finding_templates = Empty
    /\ requests = [r \in 1..MaxRequests |-> [pc |-> "idle"]]
    /\ writer = None
    /\ resp = Response("startup", 200, None, None, Detail("seed_user"))

----------------------------------------------------------------------------
(* Users: models.py User, routers/users.py *)

\* secrets.token_urlsafe(32) has a value left to yield
TokenLeft == issued < MaxTokens

\* INSERT of a User row through a Session (the entity store; no router
\* creates users).  username and api_key are UNIQUE; api_key is nullable.
insert_user(username, role, with_key) ==
    /\ \A u \in DOMAIN users : users[u].username # username
    /\ with_key => TokenLeft
    /\ users' = Insert(users, [username |-> username, role |-> role,
                               api_key |-> IF with_key THEN issued + 1
                                           ELSE None])
    /\ issued' = IF with_key THEN issued + 1 ELSE issued
    /\ resp' = Response("insert_user", 200, None, None, Detail("inserted"))
    /\ UNCHANGED <<finding_templates, program_years, engagements, assets, engagement_assets,
                   findings, finding_assets, timeline_events, comments,
                   requests, writer>>

\* a role test that every user passes
IsAdmin_anyone(user) == TRUE

\* current_user.role != "admin" is the forbidden case
IsAdmin(user) == users[user].role = "admin"

\* an assignment of the credential that is never written
WithApiKey_lost(user_id, new_api_key) == users

\* user.api_key = new_api_key; db.commit()
WithApiKey(user_id, new_api_key) ==
    [users EXCEPT ![user_id].api_key = new_api_key]

\* POST /users/{user_id}/regenerate-api-key
regenerate_api_key(user_id, x_api_key) ==
    \E auth \in get_current_user(x_api_key) :
        \/ Rejected("regenerate_api_key", x_api_key, auth)
        \/ /\ auth.status = 200
           /\ ~IsAdmin(auth.user)
           /\ resp' = Response("regenerate_api_key", 403, x_api_key, auth.user,
                   Detail("Only administrators can regenerate API keys"))
           /\ UNCHANGED <<tables, requests, writer>>
        \/ /\ auth.status = 200
           /\ IsAdmin(auth.user)
           /\ user_id \notin DOMAIN users
           /\ resp' = Response("regenerate_api_key", 404, x_api_key, auth.user,
                               Detail("User not found"))
           /\ UNCHANGED <<tables, requests, writer>>
        \/ /\ auth.status = 200
           /\ IsAdmin(auth.user)
           /\ user_id \in DOMAIN users
           /\ TokenLeft
           /\ LET new_api_key == issued + 1
              IN  /\ users' = WithApiKey(user_id, new_api_key)
                  /\ issued' = new_api_key
                  /\ resp' = Response("regenerate_api_key", 200, x_api_key,
                          auth.user,
                          [user_id |-> user_id,
                           username |-> users[user_id].username,
                           api_key |-> new_api_key])
           /\ UNCHANGED <<finding_templates, program_years, engagements, assets,
                          engagement_assets, findings, finding_assets,
                          timeline_events, comments, requests, writer>>

----------------------------------------------------------------------------
(* Assets: routers/assets.py *)

\* POST /assets/
create_asset(x_api_key, asset_in) ==
    \E auth \in get_current_user(x_api_key) :
        \/ Rejected("create_asset", x_api_key, auth)
        \/ /\ auth.status = 200
           /\ assets' = Insert(assets, Row(AssetDefaults,
                  [name |-> asset_in.name,
                   asset_type |-> asset_in.asset_type,
                   identifier |-> asset_in.identifier]))
           /\ resp' = Response("create_asset", 201, x_api_key, auth.user,
                   [id |-> NextId(assets), name |-> asset_in.name])
           /\ UNCHANGED <<finding_templates, users, issued, program_years, engagements,
                          engagement_assets, findings, finding_assets,
                          timeline_events, comments, requests, writer>>

----------------------------------------------------------------------------
(* Requests against the users and their credentials *)

\* an asset as clients and seed data describe it
web01 == [name |-> "web01", asset_type |-> "Host", identifier |-> "10.0.0.1"]

\* what a client can send as X-API-Key: nothing, "", or a token
Credentials == {None, EmptyString} \cup Tokens

NextAuth ==
    \/ /\ NextId(users) <= MaxUserId
       /\ \E username \in {"alice"}, role \in {"red", "admin"},
             with_key \in BOOLEAN : insert_user(username, role, with_key)
    \/ \E user_id \in 1..(MaxUserId + 1), x_api_key \in Credentials :
          regenerate_api_key(user_id, x_api_key)
    \/ /\ NextId(assets) <= MaxAssetId
       /\ \E x_api_key \in Credentials :
             create_asset(x_api_key, web01)

SpecAuth == Init /\ [][NextAuth]_vars

----------------------------------------------------------------------------
(* Properties of credentials and identity resolution (SpecAuth) *)

\* the user a presented credential authenticates as, None when the request
\* is refused
ResolvesTo(x_api_key) ==
    LET ok == {a \in get_current_user(x_api_key) : a.status = 200}
    IN  IF ok = {} THEN None ELSE (CHOOSE a \in ok : TRUE).user

\* the step is a successful rotation of the credential of user u
Rotates(u) ==
    /\ resp'.op = "regenerate_api_key"
    /\ resp'.status = 200
    /\ resp'.body.user_id = u

\* C8: credential rotation.  A successful regenerate_api_key for U leaves
\* U's previous credential resolving to no user and the returned credential
\* resolving to U; in every later step a credential that was generated and
\* resolves to no user keeps resolving to no user, and a credential that
\* resolves to a user keeps resolving to that user unless the step rotates
\* that user's credential.
C8_CredentialRotation ==
    [][
        /\ \A u \in DOMAIN users :
              Rotates(u) =>
                /\ \A old \in Tokens :
                      old = users[u].api_key => ResolvesTo(old)' = None
                /\ \E new \in Tokens :
                      new = resp'.body.api_key /\ ResolvesTo(new)' = u
        /\ \A k \in 1..issued :
              /\ ResolvesTo(k) = None => ResolvesTo(k)' = None
              /\ (ResolvesTo(k) # None /\ ~Rotates(ResolvesTo(k))) =>
                    ResolvesTo(k)' = ResolvesTo(k)
    ]_vars

\* C8 witness: a rotation has succeeded, the returned credential is the
\* user's current one, and a generated credential has been retired
C8_Witness ==
    /\ resp.op = "regenerate_api_key"
    /\ resp.status = 200
    /\ users[resp.body.user_id].api_key = resp.body.api_key
    /\ \E k \in 1..issued : ResolvesTo(k) = None

\* C9: regenerate_api_key is gated by the admin role.  A request whose
\* resolved identity has another role is answered 403 and changes no user
\* row; a request that changes a user row was resolved to an admin.
C9_AdminGate ==
    [][
        resp'.op = "regenerate_api_key" =>
          /\ (resp'.user # None /\ users[resp'.user].role # "admin") =>
                (resp'.status = 403 /\ users' = users)
          /\ users' # users =>
                (resp'.user # None /\ users[resp'.user].role = "admin"
                 /\ resp'.status = 200)
    ]_vars

\* C9 witness: a rotation requested by a non-admin was answered forbidden
C9_Witness ==
    /\ resp.op = "regenerate_api_key"
    /\ resp.status = 403
    /\ users[resp.user].role # "admin"

\* C10: a presented credential string that is no user's current credential
\* is refused with 401: the request resolves to no user and changes
\* nothing.
C10_UnknownCredentialRefused ==
    [][
        (/\ resp'.x_api_key # None
         /\ \A u \in DOMAIN users : users[u].api_key # resp'.x_api_key)
        => (resp'.status = 401 /\ resp'.user = None /\ UNCHANGED tables)
    ]_vars

----------------------------------------------------------------------------
(* Engagements: routers/engagements.py *)

\* a lookup by year that never finds a row
FirstProgramYear_none(year) == {}

\* db.query(ProgramYear).filter(ProgramYear.year == year).first():
\* the rows first() may return, none when the set is empty
FirstProgramYear(year) ==
    {p \in DOMAIN program_years : program_years[p].year = year}

\* the Engagement row create_engagement builds
NewEngagement(engagement_in, program_year_id, owner_id) ==
    Row(EngagementDefaults,
        [name |-> engagement_in.name,
         engagement_type |-> engagement_in.engagement_type,
         business_unit |-> engagement_in.business_unit,
         start_date |-> engagement_in.start_date,
         end_date |-> engagement_in.end_date,
         scope_summary |-> engagement_in.scope_summary,
         objectives |-> engagement_in.objectives,
         methodology |-> engagement_in.methodology,
         status |-> "Planned",
         program_year_id |-> program_year_id,
         owner_id |-> owner_id])

\* the EngagementDetail create_engagement and update_engagement return
EngagementDetail(id, row, year) ==
    [id |-> id, name |-> row.name, status |-> row.status,
     program_year |-> year, updated_at |-> row.updated_at]

\* POST /engagements/ handled to completion
create_engagement(x_api_key, engagement_in) ==
    \E auth \in get_current_user(x_api_key) :
        \/ Rejected("create_engagement", x_api_key, auth)
        \/ /\ auth.status = 200
           /\ LET year == engagement_in.program_year
                  found == FirstProgramYear(year)
              IN  \/ /\ found = {}
                     /\ program_years' =
                            Insert(program_years, [year |-> year])
                     /\ engagements' = Insert(engagements,
                            NewEngagement(engagement_in,
                                          NextId(program_years), auth.user))
                  \/ /\ found # {}
                     /\ \E program_year \in found :
                            engagements' = Insert(engagements,
                                NewEngagement(engagement_in, program_year,
                                              auth.user))
                     /\ UNCHANGED program_years
           /\ resp' = Response("create_engagement", 201, x_api_key, auth.user,
                   EngagementDetail(NextId(engagements),
                       engagements'[NextId(engagements)],
                       engagement_in.program_year))
           /\ UNCHANGED <<finding_templates, users, issued, assets, engagement_assets, findings,
                          finding_assets, timeline_events, comments,
                          requests, writer>>

\* an update that puts the status back to its default unless the body sets it
SetAttrs_reset(row, data) ==
    [field \in DOMAIN row |->
        IF field \in DOMAIN data THEN data[field]
        ELSE IF field = "status" THEN EngagementDefaults.status
        ELSE row[field]]

\* for field, value in data.items(): setattr(engagement, field, value)
SetAttrs(row, data) ==
    [field \in DOMAIN row |->
        IF field \in DOMAIN data THEN data[field] ELSE row[field]]

\* a NOT NULL column of the engagement would hold NULL
NotNullViolated(row) ==
    row.name = Null \/ row.engagement_type = Null \/ row.status = Null

\* the UPDATE the flush of db.commit() emits for a loaded row whose
\* attributes were set: none when no value differs, else the new values
\* with updated_at advanced by onupdate (the clock abstracted to the number
\* of writes of the row; 0 is the time of the insert)
Flush(row, attrs) ==
    IF attrs = row THEN row
    ELSE [attrs EXCEPT !.updated_at = row.updated_at + 1]

\* engagement.program_year.year if engagement.program_year else None
YearOf(program_year_id) ==
    IF program_year_id \in DOMAIN program_years
    THEN program_years[program_year_id].year
    ELSE None

\* PATCH /engagements/{engagement_id}; data is engagement_in.dict(exclude_unset=True)
update_engagement(engagement_id, x_api_key, data) ==
    \E auth \in get_current_user(x_api_key) :
        \/ Rejected("update_engagement", x_api_key, auth)
        \/ /\ auth.status = 200
           /\ engagement_id \notin DOMAIN engagements
           /\ resp' = Response("update_engagement", 404, x_api_key, auth.user,
                               Detail("Engagement not found"))
           /\ UNCHANGED <<tables, requests, writer>>
        \/ /\ auth.status = 200
           /\ engagement_id \in DOMAIN engagements
           /\ NotNullViolated(SetAttrs(engagements[engagement_id], data))
           /\ resp' = Response("update_engagement", 500, x_api_key, auth.user,
                               Detail("Internal Server Error"))
           /\ UNCHANGED <<tables, requests, writer>>
        \/ /\ auth.status = 200
           /\ engagement_id \in DOMAIN engagements
           /\ ~NotNullViolated(SetAttrs(engagements[engagement_id], data))
           /\ engagements' = [engagements EXCEPT ![engagement_id] =
                                  Flush(engagements[engagement_id],
                                      SetAttrs(engagements[engagement_id],
                                               data))]
           /\ resp' = Response("update_engagement", 200, x_api_key, auth.user,
                   EngagementDetail(engagement_id,
                       engagements'[engagement_id],
                       YearOf(engagements[engagement_id].program_year_id)))
           /\ UNCHANGED <<finding_templates, users, issued, program_years, assets,
                          engagement_assets, findings, finding_assets,
                          timeline_events, comments, requests, writer>>

----------------------------------------------------------------------------
(* Findings: routers/findings.py *)

\* finding_in.remediation_status or "Not-Started"
OrDefault(value, default) == IF value = "" THEN default ELSE value

\* POST /engagements/{engagement_id}/findings/
create_finding(engagement_id, x_api_key, finding_in) ==
    \E auth \in get_current_user(x_api_key) :
        \/ Rejected("create_finding", x_api_key, auth)
        \/ /\ auth.status = 200
           /\ engagement_id \notin DOMAIN engagements
           /\ resp' = Response("create_finding", 404, x_api_key, auth.user,
                               Detail("Engagement not found"))
           /\ UNCHANGED <<tables, requests, writer>>
        \/ /\ auth.status = 200
           /\ engagement_id \in DOMAIN engagements
           /\ findings' = Insert(findings, Row(FindingDefaults,
                  [engagement_id |-> engagement_id,
                   template_id |-> finding_in.template_id,
                   title |-> finding_in.title,
                   severity |-> finding_in.severity,
                   description |-> finding_in.description,
                   impact |-> finding_in.impact,
                   poc |-> finding_in.poc,
                   recommendation |-> finding_in.recommendation,
                   attack_techniques |-> finding_in.attack_techniques,
                   remediation_status |->
                       OrDefault(finding_in.remediation_status, "Not-Started"),
                   remediation_owner |-> finding_in.remediation_owner,
                   due_date |-> finding_in.due_date,
                   created_by_id |-> auth.user]))
           /\ resp' = Response("create_finding", 201, x_api_key, auth.user,
                   [id |-> NextId(findings),
                    severity |-> finding_in.severity])
           /\ UNCHANGED <<finding_templates, users, issued, program_years, engagements, assets,
                          engagement_assets, finding_assets, timeline_events,
                          comments, requests, writer>>

----------------------------------------------------------------------------
(* The report assembler: routers/engagements.py get_engagement_report *)

\* engagement.findings: the Finding rows of the engagement, in load order
EngagementFindings(engagement_id) ==
    Ascending({f \in DOMAIN findings :
                  findings[f].engagement_id = engagement_id})

\* engagement.assets: the EngagementAsset rows of the engagement
EngagementAssets(engagement_id) ==
    Ascending({l \in DOMAIN engagement_assets :
                  engagement_assets[l].engagement_id = engagement_id})

\* finding.assets: the FindingAsset rows of the finding
FindingAssets(finding_id) ==
    Ascending({l \in DOMAIN finding_assets :
                  finding_assets[l].finding_id = finding_id})

\* schemas.AssetSummary.from_orm(asset)
AssetSummary(asset_id) ==
    [id |-> asset_id, name |-> assets[asset_id].name,
     identifier |-> assets[asset_id].identifier]

\* a tally that records each label once, however often it occurs
RECURSIVE Counter_distinct(_)
Counter_distinct(items) ==
    IF items = <<>> THEN Empty
    ELSE LET counts == Counter_distinct(Tail(items))
             x == Head(items)
         IN  [k \in DOMAIN counts \cup {x} |-> 1]

\* a tally that keeps a zero entry for labels that do not occur
RECURSIVE Counter_zeroed(_)
Counter_zeroed(items) ==
    IF items = <<>> THEN [k \in CanonicalSeverities |-> 0]
    ELSE LET counts == Counter_zeroed(Tail(items))
             x == Head(items)
         IN  [k \in DOMAIN counts \cup {x} |->
                 IF k = x
                 THEN (IF x \in DOMAIN counts THEN counts[x] ELSE 0) + 1
                 ELSE counts[k]]

RECURSIVE Counter(_)
\* dict(collections.Counter(items)): counts[x] = counts.get(x, 0) + 1 for
\* each item
Counter(items) ==
    IF items = <<>> THEN Empty
    ELSE LET counts == Counter(Tail(items))
             x == Head(items)
         IN  [k \in DOMAIN counts \cup {x} |->
                 IF k = x
                 THEN (IF x \in DOMAIN counts THEN counts[x] ELSE 0) + 1
                 ELSE counts[k]]

\* the FindingReportItem built for one finding
FindingReportItem(f) ==
    [id |-> f,
     title |-> findings[f].title,
     severity |-> findings[f].severity,
     status |-> findings[f].status,
     remediation_status |-> findings[f].remediation_status,
     assets |-> [i \in 1..Len(FindingAssets(f)) |->
                    AssetSummary(finding_assets[FindingAssets(f)[i]].asset_id)]]

\* the EngagementReport document of an engagement that exists
EngagementReport(engagement_id) ==
    LET engagement == engagements[engagement_id]
        loaded == EngagementFindings(engagement_id)
        links == EngagementAssets(engagement_id)
    IN  [metadata |->
            [id |-> engagement_id,
             name |-> engagement.name,
             engagement_type |-> engagement.engagement_type,
             program_year |-> YearOf(engagement.program_year_id),
             status |-> engagement.status,
             owner_id |-> engagement.owner_id],
         scope |->
            [assets |-> [i \in 1..Len(links) |->
                AssetSummary(engagement_assets[links[i]].asset_id)]],
         findings_summary |->
            Counter([i \in 1..Len(loaded) |-> findings[loaded[i]].severity]),
         findings |->
            [i \in 1..Len(loaded) |-> FindingReportItem(loaded[i])]]

\* GET /engagements/{engagement_id}/report
get_engagement_report(engagement_id, x_api_key) ==
    \E auth \in get_current_user(x_api_key) :
        \/ Rejected("get_engagement_report", x_api_key, auth)
        \/ /\ auth.status = 200
           /\ engagement_id \notin DOMAIN engagements
           /\ resp' = Response("get_engagement_report", 404, x_api_key,
                               auth.user, Detail("Engagement not found"))
           /\ UNCHANGED <<tables, requests, writer>>
        \/ /\ auth.status = 200
           /\ engagement_id \in DOMAIN engagements
           /\ resp' = Response("get_engagement_report", 200, x_api_key,
                               auth.user, EngagementReport(engagement_id))
           /\ UNCHANGED <<tables, requests, writer>>

----------------------------------------------------------------------------
(* Text.  A Python str built by formatting is the sequence of the pieces   *)
(* it is concatenated from; a column value is one piece.                   *)

Digits == <<"0", "1", "2", "3", "4", "5", "6", "7", "8", "9">>

RECURSIVE str(_)
\* str(n) of a non-negative int: its decimal digits
str(n) ==
    IF n < 10 THEN <<Digits[n + 1]>>
    ELSE str(n \div 10) \o <<Digits[(n % 10) + 1]>>

\* value or alternative, for an Optional[str] value
Or(value, alternative) == IF Blank(value) THEN alternative ELSE value

RECURSIVE Flatten(_)
\* the concatenation of a sequence of sequences
Flatten(seqs) ==
    IF seqs = <<>> THEN <<>> ELSE Head(seqs) \o Flatten(Tail(seqs))

RECURSIVE Join(_, _)
\* sep.join(texts)
Join(sep, texts) ==
    IF texts = <<>> THEN <<>>
    ELSE IF Len(texts) = 1 THEN texts[1]
    ELSE texts[1] \o <<sep>> \o Join(sep, Tail(texts))

\* f"{asset.name} ({asset.identifier or 'N/A'})"
AssetLabel(asset_id) ==
    <<assets[asset_id].name, " (", Or(assets[asset_id].identifier, "N/A"),
      ")">>

----------------------------------------------------------------------------
(* The CSV export: routers/engagements.py export_engagement_csv *)

CsvHeader ==
    <<"Finding ID", "Title", "Severity", "Status", "Description", "Impact",
      "Recommendation", "Remediation Status", "Remediation Owner",
      "Due Date", "Detection Status", "Risk Accepted", "Affected Assets",
      "ATT&CK Techniques">>

\* an Affected Assets cell that lists the assets and is empty without any
CsvAssets_joined(f) ==
    LET links == FindingAssets(f)
    IN  Join(", ", [i \in 1..Len(links) |->
                       AssetLabel(finding_assets[links[i]].asset_id)])

\* ", ".join([...for link in finding.assets]) if finding.assets else "N/A"
CsvAssets(f) ==
    LET links == FindingAssets(f)
    IN  IF links # <<>>
        THEN Join(", ", [i \in 1..Len(links) |->
                            AssetLabel(finding_assets[links[i]].asset_id)])
        ELSE <<"N/A">>

\* a record that renders the status column from the remediation status
CsvRecord_swapped(f) ==
    LET finding == findings[f]
    IN  <<str(f), <<finding.title>>, <<finding.severity>>,
          <<finding.remediation_status>>,
          <<Or(finding.description, "")>>, <<Or(finding.impact, "")>>,
          <<Or(finding.recommendation, "")>>,
          <<finding.status>>,
          <<Or(finding.remediation_owner, "")>>,
          <<Or(finding.due_date, "")>>,
          <<Or(finding.detection_status, "")>>,
          <<IF finding.risk_accepted THEN "Yes" ELSE "No">>,
          CsvAssets(f),
          <<Or(finding.attack_techniques, "")>>>>

\* the record writer.writerow writes for one finding: one text per cell.
\* A date column holds the ISO text of the date.
CsvRecord(f) ==
    LET finding == findings[f]
    IN  <<str(f), <<finding.title>>, <<finding.severity>>,
          <<finding.status>>,
          <<Or(finding.description, "")>>, <<Or(finding.impact, "")>>,
          <<Or(finding.recommendation, "")>>,
          <<finding.remediation_status>>,
          <<Or(finding.remediation_owner, "")>>,
          <<Or(finding.due_date, "")>>,
          <<Or(finding.detection_status, "")>>,
          <<IF finding.risk_accepted THEN "Yes" ELSE "No">>,
          CsvAssets(f),
          <<Or(finding.attack_techniques, "")>>>>

\* an export that writes the header only when there is a finding
CsvRecords_bare(engagement_id) ==
    LET loaded == EngagementFindings(engagement_id)
    IN  IF loaded = <<>> THEN <<>>
        ELSE <<[i \in 1..Len(CsvHeader) |-> <<CsvHeader[i]>>]>>
             \o [i \in 1..Len(loaded) |-> CsvRecord(loaded[i])]

\* the records of the CSV document: the header, then one per finding
CsvRecords(engagement_id) ==
    LET loaded == EngagementFindings(engagement_id)
    IN  <<[i \in 1..Len(CsvHeader) |-> <<CsvHeader[i]>>]>>
        \o [i \in 1..Len(loaded) |-> CsvRecord(loaded[i])]

\* an export that logs itself on the timeline of the engagement
export_engagement_csv_logged(engagement_id, x_api_key) ==
    /\ engagement_id \in DOMAIN engagements
    /\ timeline_events' = Insert(timeline_events,
          [engagement_id |-> engagement_id, user_id |-> None,
           event_type |-> "Export", summary |-> "CSV exported"])
    /\ resp' = Response("export_engagement_csv", 200, x_api_key, None,
            [media_type |-> "text/csv",
             records |-> CsvRecords(engagement_id)])
    /\ UNCHANGED <<finding_templates, users, issued, program_years, engagements, assets,
                   engagement_assets, findings, finding_assets, comments,
                   requests, writer>>

\* GET /engagements/{engagement_id}/export/csv
export_engagement_csv(engagement_id, x_api_key) ==
    \E auth \in get_current_user(x_api_key) :
        \/ Rejected("export_engagement_csv", x_api_key, auth)
        \/ /\ auth.status = 200
           /\ engagement_id \notin DOMAIN engagements
           /\ resp' = Response("export_engagement_csv", 404, x_api_key,
                               auth.user, Detail("Engagement not found"))
           /\ UNCHANGED <<tables, requests, writer>>
        \/ /\ auth.status = 200
           /\ engagement_id \in DOMAIN engagements
           /\ resp' = Response("export_engagement_csv", 200, x_api_key,
                   auth.user,
                   [media_type |-> "text/csv",
                    records |-> CsvRecords(engagement_id)])
           /\ UNCHANGED <<tables, requests, writer>>

----------------------------------------------------------------------------
(* The Markdown export: routers/engagements.py export_engagement_markdown  *)
(* A document is the sequence md_lines; a line is a text, "" the empty one *)

\* a heading, a blank line, the text, a blank line: emitted when the
\* source text is not blank
Section(heading, text) ==
    IF Blank(text) THEN <<>>
    ELSE << <<heading>>, <<>>, <<text>>, <<>> >>

\* a line appended only when the value is not blank
OptionalLine(label, value) ==
    IF Blank(value) THEN <<>> ELSE << <<label, value>> >>

\* the title and the metadata bullet list
MetadataLines(engagement_id) ==
    LET engagement == engagements[engagement_id]
        year == YearOf(engagement.program_year_id)
    IN  << <<"# ", engagement.name>>, <<>>,
           <<"## Engagement Metadata">>, <<>>,
           <<"- **Type**: ", engagement.engagement_type>>,
           <<"- **Status**: ", engagement.status>>,
           <<"- **Business Unit**: ", Or(engagement.business_unit, "N/A")>>,
           <<"- **Program Year**: ">>
               \o (IF year = None THEN <<"N/A">> ELSE str(year)) >>
        \o OptionalLine("- **Start Date**: ", engagement.start_date)
        \o OptionalLine("- **End Date**: ", engagement.end_date)
        \o << <<>> >>

\* the "In-Scope Assets" sub-list, emitted when engagement.assets is not
\* empty
InScopeLines(engagement_id) ==
    LET links == EngagementAssets(engagement_id)
    IN  IF links = <<>> THEN <<>>
        ELSE << <<"### In-Scope Assets">>, <<>> >>
             \o [i \in 1..Len(links) |->
                    LET asset == assets[engagement_assets[links[i]].asset_id]
                    IN  <<"- **", asset.name, "** (", asset.asset_type,
                          "): ", Or(asset.identifier, "N/A")>>]
             \o << <<>> >>

\* the severities the summary table has a row for, in the order of its rows
CanonicalOrder_created == <<"High", "Critical", "Medium", "Low", "Info">>

CanonicalOrder == <<"Critical", "High", "Medium", "Low", "Info">>

\* severity_counts.get(severity, 0)
Get(counts, key, default) ==
    IF key \in DOMAIN counts THEN counts[key] ELSE default

\* a summary that prints the table, even an empty one
SummaryLines_table(engagement_id) ==
    LET loaded == EngagementFindings(engagement_id)
        severity_counts ==
            Counter([i \in 1..Len(loaded) |-> findings[loaded[i]].severity])
    IN  << <<"## Findings Summary">>, <<>>,
           <<"| Severity | Count |">>, <<"|----------|-------|">> >>
        \o Flatten([i \in 1..Len(CanonicalOrder) |->
              LET count == Get(severity_counts, CanonicalOrder[i], 0)
              IN  IF count > 0
                  THEN << <<"| ", CanonicalOrder[i], " | ">>
                          \o str(count) \o <<" |">> >>
                  ELSE <<>>])
        \o << <<>> >>

\* the Findings Summary section
SummaryLines(engagement_id) ==
    LET loaded == EngagementFindings(engagement_id)
        severity_counts ==
            Counter([i \in 1..Len(loaded) |-> findings[loaded[i]].severity])
    IN  << <<"## Findings Summary">>, <<>> >>
        \o (IF DOMAIN severity_counts # {}
            THEN << <<"| Severity | Count |">>, <<"|----------|-------|">> >>
                 \o Flatten([i \in 1..Len(CanonicalOrder) |->
                       LET count ==
                               Get(severity_counts, CanonicalOrder[i], 0)
                       IN  IF count > 0
                           THEN << <<"| ", CanonicalOrder[i], " | ">>
                                   \o str(count) \o <<" |">> >>
                           ELSE <<>>])
            ELSE << <<"No findings recorded.">> >>)
        \o << <<>> >>

\* a label line, a blank line, the text, a blank line
Block(label, text) ==
    IF Blank(text) THEN <<>>
    ELSE << <<label>>, <<>>, <<text>>, <<>> >>

\* the numbered subsection of the i-th finding
FindingLines(i, f) ==
    LET finding == findings[f]
        links == FindingAssets(f)
    IN  << <<"### ">> \o str(i) \o <<". ", finding.title>>, <<>>,
           <<"- **Severity**: ", finding.severity>>,
           <<"- **Status**: ", finding.status>>,
           <<"- **Remediation Status**: ", finding.remediation_status>> >>
        \o OptionalLine("- **Remediation Owner**: ",
                        finding.remediation_owner)
        \o OptionalLine("- **Due Date**: ", finding.due_date)
        \o << <<>> >>
        \o (IF links = <<>> THEN <<>>
            ELSE << <<"**Affected Assets:**">> >>
                 \o [k \in 1..Len(links) |->
                        <<"- ">>
                        \o AssetLabel(finding_assets[links[k]].asset_id)]
                 \o << <<>> >>)
        \o Block("**Description:**", finding.description)
        \o Block("**Impact:**", finding.impact)
        \o Block("**Proof of Concept:**", finding.poc)
        \o Block("**Recommendation:**", finding.recommendation)
        \o (IF Blank(finding.attack_techniques) THEN <<>>
            ELSE << <<"**ATT&CK Techniques:** ",
                      finding.attack_techniques>>, <<>> >>)

\* the Detailed Findings section, emitted when there is a finding
DetailedLines(engagement_id) ==
    LET loaded == EngagementFindings(engagement_id)
    IN  IF loaded = <<>> THEN <<>>
        ELSE << <<"## Detailed Findings">>, <<>> >>
             \o Flatten([i \in 1..Len(loaded) |-> FindingLines(i, loaded[i])])

\* md_lines of an engagement that exists
MarkdownLines(engagement_id) ==
    LET engagement == engagements[engagement_id]
    IN  MetadataLines(engagement_id)
        \o Section("## Executive Summary", engagement.exec_summary)
        \o Section("## Scope", engagement.scope_summary)
        \o InScopeLines(engagement_id)
        \o Section("## Objectives", engagement.objectives)
        \o Section("## Methodology", engagement.methodology)
        \o SummaryLines(engagement_id)
        \o DetailedLines(engagement_id)
        \o Section("## Overall Recommendations",
                   engagement.recommendations_overall)

\* GET /engagements/{engagement_id}/export/markdown
export_engagement_markdown(engagement_id, x_api_key) ==
    \E auth \in get_current_user(x_api_key) :
        \/ Rejected("export_engagement_markdown", x_api_key, auth)
        \/ /\ auth.status = 200
           /\ engagement_id \notin DOMAIN engagements
           /\ resp' = Response("export_engagement_markdown", 404, x_api_key,
                               auth.user, Detail("Engagement not found"))
           /\ UNCHANGED <<tables, requests, writer>>
        \/ /\ auth.status = 200
           /\ engagement_id \in DOMAIN engagements
           /\ resp' = Response("export_engagement_markdown", 200, x_api_key,
                   auth.user,
                   [media_type |-> "text/markdown",
                    md_lines |-> MarkdownLines(engagement_id)])
           /\ UNCHANGED <<tables, requests, writer>>

----------------------------------------------------------------------------
(* Requests handled one after another *)

\* the request bodies the clients send
EngagementInputs ==
    [name : {"Q2 2025 PCI Network Test"}, engagement_type : {"PCI"},
     business_unit : {Null}, start_date : {Null}, end_date : {Null},
     scope_summary : {Null}, objectives : {Null}, methodology : {Null},
     program_year : Years]

\* severity is any string: two of the five labels and one that is none of them
SeverityInputs == {"Critical", "High", "Urgent"}

FindingInputs ==
    [title : {"Unauthenticated Telnet Access"}, severity : SeverityInputs,
     description : {Null}, impact : {Null}, poc : {Null},
     recommendation : {Null}, attack_techniques : {Null},
     template_id : {None}, remediation_status : {""},
     remediation_owner : {Null}, due_date : {Null}]

EngagementUpdates ==
    {[status |-> "In-Progress"]}

\* the engagement and finding rows written so far
ReportRows == Cardinality(DOMAIN engagements) + Cardinality(DOMAIN findings)

Next ==
    \/ /\ ReportRows < MaxReportRows
       /\ NextId(engagements) <= MaxEngagementId
       /\ \E engagement_in \in EngagementInputs :
             create_engagement(1, engagement_in)
    \/ \E engagement_id \in 1..MaxEngagementId, data \in EngagementUpdates :
          update_engagement(engagement_id, None, data)
    \/ /\ ReportRows < MaxReportRows
       /\ NextId(findings) <= MaxFindingId
       /\ \E engagement_id \in 1..(MaxEngagementId + 1),
             finding_in \in FindingInputs :
             create_finding(engagement_id, 1, finding_in)
    \/ \E engagement_id \in 1..(MaxEngagementId + 1) :
          get_engagement_report(engagement_id, 1)

Spec == Init /\ [][Next]_vars

----------------------------------------------------------------------------
(* Properties of the report and of create_engagement (Spec) *)

RECURSIVE SumValues(_)
\* sum(d.values())
SumValues(d) ==
    IF DOMAIN d = {} THEN 0
    ELSE LET k == CHOOSE x \in DOMAIN d : TRUE
         IN  d[k] + SumValues([j \in DOMAIN d \ {k} |-> d[j]])

\* the last response is a report document
ReportReturned ==
    resp.op = "get_engagement_report" /\ resp.status = 200

\* C1: in the document get_engagement_report returns, the number of entries
\* of findings equals the sum of the values of findings_summary.
C1_SummaryTotalsFindings ==
    ReportReturned =>
        Len(resp.body.findings) = SumValues(resp.body.findings_summary)

\* C1 witness: a report of two findings that share one severity
C1_Witness ==
    /\ ReportReturned
    /\ Len(resp.body.findings) = 2
    /\ Cardinality(DOMAIN resp.body.findings_summary) = 1

\* C2: findings_summary has a key s exactly when a finding of the
\* engagement has severity s, and maps s to the number of the engagement's
\* findings of severity s, which is never 0.
C2_SummaryCountsBySeverity ==
    ReportReturned =>
        LET mine == {f \in DOMAIN findings :
                        findings[f].engagement_id = resp.body.metadata.id}
            summary == resp.body.findings_summary
        IN  /\ DOMAIN summary = {findings[f].severity : f \in mine}
            /\ \A s \in DOMAIN summary :
                  /\ summary[s] = Cardinality({f \in mine :
                                                 findings[f].severity = s})
                  /\ summary[s] > 0

\* C2 witness: findings of severities High and Critical are reported as
\* {Critical: 1, High: 1}
C2_Witness ==
    /\ ReportReturned
    /\ DOMAIN resp.body.findings_summary = {"Critical", "High"}
    /\ resp.body.findings_summary["Critical"] = 1
    /\ resp.body.findings_summary["High"] = 1

\* the step adds one engagement row: a create_engagement that succeeded
EngagementCreated ==
    /\ resp'.op = "create_engagement"
    /\ resp'.status = 201
    /\ DOMAIN engagements' # DOMAIN engagements

\* C3: a create_engagement citing a year with no ProgramYear row adds
\* exactly one ProgramYear row, with that year; one citing a year that has
\* a row adds none and attaches the new engagement to the existing row.
C3_GetOrCreateProgramYear ==
    [][
        EngagementCreated =>
          LET year == resp'.body.program_year
              had == {p \in DOMAIN program_years :
                         program_years[p].year = year}
              added == DOMAIN program_years' \ DOMAIN program_years
              new == engagements'[resp'.body.id]
          IN  /\ \A p \in DOMAIN program_years :
                    /\ p \in DOMAIN program_years'
                    /\ program_years'[p] = program_years[p]
              /\ had = {} =>
                    /\ Cardinality(added) = 1
                    /\ \A p \in added : program_years'[p].year = year
                    /\ new.program_year_id \in added
              /\ had # {} =>
                    /\ added = {}
                    /\ new.program_year_id \in had
    ]_vars

\* C3 witness: two engagements share the one ProgramYear row of their year
C3_Witness ==
    /\ resp.op = "create_engagement"
    /\ resp.status = 201
    /\ Cardinality(DOMAIN engagements) = 2
    /\ \A e \in DOMAIN engagements :
          engagements[e].program_year_id = engagements[1].program_year_id
    /\ Cardinality({p \in DOMAIN program_years :
            program_years[p].year = resp.body.program_year}) = 1

----------------------------------------------------------------------------
(* create_engagement statement by statement, for requests that overlap.    *)
(* Each request has its own Session and connection (db.py get_db).  A      *)
(* SELECT reads the committed rows; the first INSERT of a session takes    *)
(* the database's write lock, which the session holds until it commits or  *)
(* is closed; UNIQUE(program_years.year) is checked when the INSERT runs.  *)

Idle == [pc |-> "idle"]

\* a year column without the unique constraint
UniqueYearViolated_unchecked(year) == FALSE

\* year = Column(Integer, nullable=False, unique=True): the INSERT of a
\* second row with the year raises IntegrityError
UniqueYearViolated(year) ==
    \E p \in DOMAIN program_years : program_years[p].year = year

\* the request is received and its dependencies get_db and get_current_user
\* are resolved
create_engagement_begin(r, x_api_key, engagement_in) ==
    /\ requests[r].pc = "idle"
    /\ \E auth \in get_current_user(x_api_key) :
        \/ Rejected("create_engagement", x_api_key, auth)
        \/ /\ auth.status = 200
           /\ requests' = [requests EXCEPT ![r] =
                  [pc |-> "query", x_api_key |-> x_api_key,
                   user |-> auth.user, engagement_in |-> engagement_in,
                   program_year_id |-> None, pending |-> FALSE]]
           /\ UNCHANGED <<tables, writer, resp>>

\* program_year = db.query(ProgramYear).filter(...).first()
create_engagement_query(r) ==
    /\ requests[r].pc = "query"
    /\ LET found == FirstProgramYear(requests[r].engagement_in.program_year)
       IN  \/ /\ found = {}
              /\ requests' = [requests EXCEPT ![r].pc = "flush"]
           \/ \E program_year \in found :
                requests' = [requests EXCEPT ![r].pc = "commit",
                                ![r].program_year_id = program_year]
    /\ UNCHANGED <<tables, writer, resp>>

\* the response of a request that ended in an unhandled database error;
\* closing the session rolls back and releases the lock
create_engagement_error(r, error) ==
    /\ requests' = [requests EXCEPT ![r] = Idle]
    /\ writer' = IF writer = r THEN None ELSE writer
    /\ resp' = Response("create_engagement", 500, requests[r].x_api_key,
                        requests[r].user, Detail(error))
    /\ UNCHANGED tables

\* a flush whose INSERT is committed at once
create_engagement_flush_autocommit(r) ==
    /\ requests[r].pc = "flush"
    /\ writer = None
    /\ \/ /\ UniqueYearViolated(requests[r].engagement_in.program_year)
          /\ create_engagement_error(r, "IntegrityError")
       \/ /\ ~UniqueYearViolated(requests[r].engagement_in.program_year)
          /\ program_years' =
                Insert(program_years,
                       [year |-> requests[r].engagement_in.program_year])
          /\ requests' = [requests EXCEPT ![r].pc = "commit",
                              ![r].program_year_id = NextId(program_years)]
          /\ UNCHANGED <<users, issued, engagements, assets,
                         engagement_assets, findings, finding_assets,
                         timeline_events, comments, finding_templates,
                         writer, resp>>

\* db.add(program_year); db.flush()
create_engagement_flush(r) ==
    /\ requests[r].pc = "flush"
    /\ writer = None
    /\ \/ /\ UniqueYearViolated(requests[r].engagement_in.program_year)
          /\ create_engagement_error(r, "IntegrityError")
       \/ /\ ~UniqueYearViolated(requests[r].engagement_in.program_year)
          /\ writer' = r
          /\ requests' = [requests EXCEPT ![r].pc = "commit",
                              ![r].program_year_id = NextId(program_years),
                              ![r].pending = TRUE]
          /\ UNCHANGED <<tables, resp>>

\* an INSERT that waited for the write lock longer than the busy timeout
create_engagement_locked(r) ==
    /\ requests[r].pc \in {"flush", "commit"}
    /\ writer \notin {None, r}
    /\ create_engagement_error(r, "OperationalError")

\* db.add(engagement); db.commit(); the response
create_engagement_commit(r) ==
    /\ requests[r].pc = "commit"
    /\ writer \in {None, r}
    /\ program_years' =
          IF requests[r].pending
          THEN Insert(program_years,
                      [year |-> requests[r].engagement_in.program_year])
          ELSE program_years
    /\ engagements' = Insert(engagements,
          NewEngagement(requests[r].engagement_in,
                        requests[r].program_year_id, requests[r].user))
    /\ writer' = None
    /\ requests' = [requests EXCEPT ![r] = Idle]
    /\ resp' = Response("create_engagement", 201, requests[r].x_api_key,
          requests[r].user,
          EngagementDetail(NextId(engagements),
              engagements'[NextId(engagements)],
              requests[r].engagement_in.program_year))
    /\ UNCHANGED <<finding_templates, users, issued, assets, engagement_assets, findings,
                   finding_assets, timeline_events, comments>>

NextConc ==
    \E r \in 1..MaxRequests :
        \/ \E x_api_key \in {1, 2}, engagement_in \in EngagementInputs :
              create_engagement_begin(r, x_api_key, engagement_in)
        \/ create_engagement_query(r)
        \/ create_engagement_flush(r)
        \/ create_engagement_locked(r)
        \/ NextId(engagements) <= MaxEngagementId
           /\ create_engagement_commit(r)

SpecConc == Init /\ [][NextConc]_vars

----------------------------------------------------------------------------
(* Properties of overlapping create_engagement requests (SpecConc) *)

\* C4: no committed state holds two ProgramYear rows with the same year,
\* however the check, insert and commit of overlapping requests interleave.
C4_OneRowPerYear ==
    \A p, q \in DOMAIN program_years :
        program_years[p].year = program_years[q].year => p = q

\* C4 witness: a request found no row for its year, another request
\* committed that year meanwhile, and the first is about to insert
C4_Witness ==
    \E r \in 1..MaxRequests :
        /\ requests[r].pc = "flush"
        /\ \E p \in DOMAIN program_years :
              program_years[p].year = requests[r].engagement_in.program_year

\* C5: every create_engagement request completes successfully, also when
\* it races with another request citing the same new year.
C5_RaceTolerated ==
    ~(resp.op = "create_engagement" /\ resp.status = 500)

----------------------------------------------------------------------------
(* Timeline events and comments: routers/timeline_comments.py *)

\* POST /engagements/{engagement_id}/timeline
add_timeline_event(engagement_id, x_api_key, event_in) ==
    \E auth \in get_current_user(x_api_key) :
        \/ Rejected("add_timeline_event", x_api_key, auth)
        \/ /\ auth.status = 200
           /\ engagement_id \notin DOMAIN engagements
           /\ resp' = Response("add_timeline_event", 404, x_api_key,
                               auth.user, Detail("Engagement not found"))
           /\ UNCHANGED <<tables, requests, writer>>
        \/ /\ auth.status = 200
           /\ engagement_id \in DOMAIN engagements
           /\ timeline_events' = Insert(timeline_events,
                  [engagement_id |-> engagement_id, user_id |-> auth.user,
                   event_type |-> event_in.event_type,
                   summary |-> event_in.summary])
           /\ resp' = Response("add_timeline_event", 201, x_api_key,
                               auth.user, [id |-> NextId(timeline_events)])
           /\ UNCHANGED <<finding_templates, users, issued, program_years, engagements, assets,
                          engagement_assets, findings, finding_assets,
                          comments, requests, writer>>

\* a comment handler that records an author only when a key was presented
add_engagement_comment_anonymous(engagement_id, x_api_key, comment_in) ==
    \E auth \in get_current_user(x_api_key) :
        \/ Rejected("add_engagement_comment", x_api_key, auth)
        \/ /\ auth.status = 200
           /\ engagement_id \notin DOMAIN engagements
           /\ resp' = Response("add_engagement_comment", 404, x_api_key,
                               auth.user, Detail("Engagement not found"))
           /\ UNCHANGED <<tables, requests, writer>>
        \/ /\ auth.status = 200
           /\ engagement_id \in DOMAIN engagements
           /\ comments' = Insert(comments,
                  [engagement_id |-> engagement_id, finding_id |-> None,
                   user_id |-> IF Truthy(x_api_key) THEN auth.user
                               ELSE None,
                   text |-> comment_in.text])
           /\ resp' = Response("add_engagement_comment", 201, x_api_key,
                               auth.user, [id |-> NextId(comments)])
           /\ UNCHANGED <<finding_templates, users, issued, program_years, engagements, assets,
                          engagement_assets, findings, finding_assets,
                          timeline_events, requests, writer>>

\* POST /engagements/{engagement_id}/comments
add_engagement_comment(engagement_id, x_api_key, comment_in) ==
    \E auth \in get_current_user(x_api_key) :
        \/ Rejected("add_engagement_comment", x_api_key, auth)
        \/ /\ auth.status = 200
           /\ engagement_id \notin DOMAIN engagements
           /\ resp' = Response("add_engagement_comment", 404, x_api_key,
                               auth.user, Detail("Engagement not found"))
           /\ UNCHANGED <<tables, requests, writer>>
        \/ /\ auth.status = 200
           /\ engagement_id \in DOMAIN engagements
           /\ comments' = Insert(comments,
                  [engagement_id |-> engagement_id, finding_id |-> None,
                   user_id |-> auth.user, text |-> comment_in.text])
           /\ resp' = Response("add_engagement_comment", 201, x_api_key,
                               auth.user, [id |-> NextId(comments)])
           /\ UNCHANGED <<finding_templates, users, issued, program_years, engagements, assets,
                          engagement_assets, findings, finding_assets,
                          timeline_events, requests, writer>>

\* GET /engagements/{engagement_id}/timeline: the events whose
\* engagement_id is the one addressed, ordered by created_at (the order
\* they were inserted in); the engagement itself is not looked up
list_timeline_events(engagement_id, x_api_key) ==
    \E auth \in get_current_user(x_api_key) :
        \/ Rejected("list_timeline_events", x_api_key, auth)
        \/ /\ auth.status = 200
           /\ LET own == Ascending({t \in DOMAIN timeline_events :
                           timeline_events[t].engagement_id = engagement_id})
              IN  resp' = Response("list_timeline_events", 200, x_api_key,
                      auth.user,
                      [items |-> [i \in 1..Len(own) |->
                          [id |-> own[i],
                           engagement_id |->
                               timeline_events[own[i]].engagement_id,
                           event_type |->
                               timeline_events[own[i]].event_type]]])
           /\ UNCHANGED <<tables, requests, writer>>

----------------------------------------------------------------------------
(* Reading an engagement and its findings *)

\* FindingSummary of a finding
FindingSummary(f) ==
    [id |-> f, title |-> findings[f].title,
     severity |-> findings[f].severity, status |-> findings[f].status,
     remediation_status |-> findings[f].remediation_status,
     due_date |-> findings[f].due_date]

\* GET /engagements/{engagement_id}
get_engagement(engagement_id, x_api_key) ==
    \E auth \in get_current_user(x_api_key) :
        \/ Rejected("get_engagement", x_api_key, auth)
        \/ /\ auth.status = 200
           /\ engagement_id \notin DOMAIN engagements
           /\ resp' = Response("get_engagement", 404, x_api_key, auth.user,
                               Detail("Engagement not found"))
           /\ UNCHANGED <<tables, requests, writer>>
        \/ /\ auth.status = 200
           /\ engagement_id \in DOMAIN engagements
           /\ LET loaded == EngagementFindings(engagement_id)
                  links == EngagementAssets(engagement_id)
              IN  resp' = Response("get_engagement", 200, x_api_key,
                      auth.user,
                      [detail |-> EngagementDetail(engagement_id,
                           engagements[engagement_id],
                           YearOf(engagements[engagement_id].program_year_id)),
                       assets |-> [i \in 1..Len(links) |->
                           AssetSummary(engagement_assets[links[i]].asset_id)],
                       findings |-> [i \in 1..Len(loaded) |->
                           FindingSummary(loaded[i])],
                       timeline_events |->
                           Ascending({t \in DOMAIN timeline_events :
                               timeline_events[t].engagement_id
                                   = engagement_id}),
                       comments |->
                           Ascending({c \in DOMAIN comments :
                               comments[c].engagement_id = engagement_id})])
           /\ UNCHANGED <<tables, requests, writer>>

\* the severity strings in use, in the order the database compares text
Collation == <<"Critical", "High", "Info", "Low", "Medium", "Urgent">>

\* the place of a text in the collation
Position(text) == CHOOSE i \in 1..Len(Collation) : Collation[i] = text

\* .order_by(Finding.severity.desc()).all(): every order of the rows that
\* descends by severity text; rows of equal severity come in any order
OrderBySeverityDesc(rows) ==
    {order \in [1..Cardinality(rows) -> rows] :
        /\ \A i, j \in 1..Cardinality(rows) : order[i] = order[j] => i = j
        /\ \A i, j \in 1..Cardinality(rows) :
              i < j => Position(findings[order[i]].severity)
                          >= Position(findings[order[j]].severity)}

\* GET /engagements/{engagement_id}/findings/
list_findings_for_engagement(engagement_id, x_api_key) ==
    \E auth \in get_current_user(x_api_key) :
        \/ Rejected("list_findings_for_engagement", x_api_key, auth)
        \/ /\ auth.status = 200
           /\ engagement_id \notin DOMAIN engagements
           /\ resp' = Response("list_findings_for_engagement", 404,
                               x_api_key, auth.user,
                               Detail("Engagement not found"))
           /\ UNCHANGED <<tables, requests, writer>>
        \/ /\ auth.status = 200
           /\ engagement_id \in DOMAIN engagements
           /\ \E order \in OrderBySeverityDesc(
                     {f \in DOMAIN findings :
                         findings[f].engagement_id = engagement_id}) :
                 resp' = Response("list_findings_for_engagement", 200,
                     x_api_key, auth.user,
                     [items |-> [i \in 1..Len(order) |->
                                    FindingSummary(order[i])]])
           /\ UNCHANGED <<tables, requests, writer>>

----------------------------------------------------------------------------
(* The entity store: rows written and deleted through a Session on the     *)
(* models of models.py.  The cascades are those the relationships state.   *)

\* the result of a unit of work that inserted rows and committed
Committed == Response("commit", 200, None, None, Detail("committed"))

\* session.add(Engagement(name=..., engagement_type=...)); commit
insert_engagement(name, engagement_type) ==
    /\ engagements' = Insert(engagements, Row(EngagementDefaults,
          [name |-> name, engagement_type |-> engagement_type]))
    /\ resp' = Committed
    /\ UNCHANGED <<finding_templates, users, issued, program_years, assets, engagement_assets,
                   findings, finding_assets, timeline_events, comments,
                   requests, writer>>

\* session.add(Asset(**columns)); commit
insert_asset(columns) ==
    /\ assets' = Insert(assets, Row(AssetDefaults, columns))
    /\ resp' = Committed
    /\ UNCHANGED <<finding_templates, users, issued, program_years, engagements,
                   engagement_assets, findings, finding_assets,
                   timeline_events, comments, requests, writer>>

\* engagement.assets.append(EngagementAsset(asset=asset)); commit
insert_engagement_asset(engagement_id, asset_id) ==
    /\ engagement_id \in DOMAIN engagements
    /\ asset_id \in DOMAIN assets
    /\ engagement_assets' = Insert(engagement_assets,
          [engagement_id |-> engagement_id, asset_id |-> asset_id])
    /\ resp' = Committed
    /\ UNCHANGED <<finding_templates, users, issued, program_years, engagements, assets,
                   findings, finding_assets, timeline_events, comments,
                   requests, writer>>

\* engagement.findings.append(Finding(title=..., severity=...)); commit
insert_finding(engagement_id, title, severity) ==
    /\ engagement_id \in DOMAIN engagements
    /\ findings' = Insert(findings, Row(FindingDefaults,
          [engagement_id |-> engagement_id, title |-> title,
           severity |-> severity]))
    /\ resp' = Committed
    /\ UNCHANGED <<finding_templates, users, issued, program_years, engagements, assets,
                   engagement_assets, finding_assets, timeline_events,
                   comments, requests, writer>>

\* finding.assets.append(FindingAsset(asset=asset)); commit
insert_finding_asset(finding_id, asset_id) ==
    /\ finding_id \in DOMAIN findings
    /\ asset_id \in DOMAIN assets
    /\ finding_assets' = Insert(finding_assets,
          [finding_id |-> finding_id, asset_id |-> asset_id])
    /\ resp' = Committed
    /\ UNCHANGED <<finding_templates, users, issued, program_years, engagements, assets,
                   engagement_assets, findings, timeline_events, comments,
                   requests, writer>>

\* engagement.timeline_events.append(TimelineEvent(...)); commit
insert_timeline_event(engagement_id, event_type, summary) ==
    /\ engagement_id \in DOMAIN engagements
    /\ timeline_events' = Insert(timeline_events,
          [engagement_id |-> engagement_id, user_id |-> None,
           event_type |-> event_type, summary |-> summary])
    /\ resp' = Committed
    /\ UNCHANGED <<finding_templates, users, issued, program_years, engagements, assets,
                   engagement_assets, findings, finding_assets, comments,
                   requests, writer>>

\* engagement.comments.append(Comment(user=user, text=text)); commit
insert_engagement_comment(engagement_id, user_id, text) ==
    /\ engagement_id \in DOMAIN engagements
    /\ user_id \in DOMAIN users
    /\ comments' = Insert(comments,
          [engagement_id |-> engagement_id, finding_id |-> None,
           user_id |-> user_id, text |-> text])
    /\ resp' = Committed
    /\ UNCHANGED <<finding_templates, users, issued, program_years, engagements, assets,
                   engagement_assets, findings, finding_assets,
                   timeline_events, requests, writer>>

\* finding.comments.append(Comment(user=user, text=text)); commit
insert_finding_comment(finding_id, user_id, text) ==
    /\ finding_id \in DOMAIN findings
    /\ user_id \in DOMAIN users
    /\ comments' = Insert(comments,
          [engagement_id |-> None, finding_id |-> finding_id,
           user_id |-> user_id, text |-> text])
    /\ resp' = Committed
    /\ UNCHANGED <<finding_templates, users, issued, program_years, engagements, assets,
                   engagement_assets, findings, finding_assets,
                   timeline_events, requests, writer>>

\* a cascade that follows the asset to every engagement's links to it
Engagement_assets_by_asset(engagement_id) ==
    {l \in DOMAIN engagement_assets :
        \E m \in DOMAIN engagement_assets :
            /\ engagement_assets[m].engagement_id = engagement_id
            /\ engagement_assets[m].asset_id = engagement_assets[l].asset_id}

\* Engagement.assets, cascade="all, delete-orphan"
Engagement_assets(engagement_id) ==
    {l \in DOMAIN engagement_assets :
        engagement_assets[l].engagement_id = engagement_id}

\* Engagement.findings, cascade="all, delete-orphan"
Engagement_findings(engagement_id) ==
    {f \in DOMAIN findings : findings[f].engagement_id = engagement_id}

\* Engagement.timeline_events, cascade="all, delete-orphan"
Engagement_timeline_events(engagement_id) ==
    {t \in DOMAIN timeline_events :
        timeline_events[t].engagement_id = engagement_id}

\* Engagement.comments, cascade="all, delete-orphan"
Engagement_comments(engagement_id) ==
    {c \in DOMAIN comments : comments[c].engagement_id = engagement_id}

\* a Finding.assets relationship without the delete cascade
Finding_assets_kept(finding_id) == {}

\* Finding.assets, cascade="all, delete-orphan"
Finding_assets(finding_id) ==
    {l \in DOMAIN finding_assets :
        finding_assets[l].finding_id = finding_id}

\* Finding.comments, cascade="all, delete-orphan"
Finding_comments(finding_id) ==
    {c \in DOMAIN comments : comments[c].finding_id = finding_id}

\* EngagementAsset.asset and FindingAsset.asset state no cascade: deleting
\* the association rows in links deletes no Asset
Association_asset(links) == {}

\* session.delete(engagement); commit: the unit of work deletes the
\* engagement and everything the cascades reach, in one transaction.  The
\* result counts the rows of each table the unit of work deleted.
delete_engagement(engagement_id) ==
    /\ engagement_id \in DOMAIN engagements
    /\ LET gone_findings == Engagement_findings(engagement_id)
           gone_links == Engagement_assets(engagement_id)
           gone_events == Engagement_timeline_events(engagement_id)
           gone_finding_links ==
               UNION {Finding_assets(f) : f \in gone_findings}
           gone_finding_comments ==
               UNION {Finding_comments(f) : f \in gone_findings}
           gone_comments ==
               Engagement_comments(engagement_id) \cup gone_finding_comments
       IN  /\ engagements' = Remove(engagements, {engagement_id})
           /\ engagement_assets' = Remove(engagement_assets, gone_links)
           /\ findings' = Remove(findings, gone_findings)
           /\ finding_assets' = Remove(finding_assets, gone_finding_links)
           /\ timeline_events' = Remove(timeline_events, gone_events)
           /\ comments' = Remove(comments, gone_comments)
           /\ assets' = Remove(assets,
                  Association_asset(gone_links \cup gone_finding_links))
           /\ resp' = Response("delete_engagement", 200, None, None,
                  [engagement_assets |-> Cardinality(gone_links),
                   findings |-> Cardinality(gone_findings),
                   finding_assets |-> Cardinality(gone_finding_links),
                   timeline_events |-> Cardinality(gone_events),
                   engagement_comments |->
                       Cardinality(Engagement_comments(engagement_id)),
                   finding_comments |->
                       Cardinality(gone_finding_comments)])
    /\ UNCHANGED <<finding_templates, users, issued, program_years, requests, writer>>

\* session.delete(finding); commit
delete_finding(finding_id) ==
    /\ finding_id \in DOMAIN findings
    /\ LET gone_finding_links == Finding_assets(finding_id)
           gone_finding_comments == Finding_comments(finding_id)
       IN  /\ findings' = Remove(findings, {finding_id})
           /\ finding_assets' = Remove(finding_assets, gone_finding_links)
           /\ comments' = Remove(comments, gone_finding_comments)
           /\ assets' = Remove(assets, Association_asset(gone_finding_links))
           /\ resp' = Response("delete_finding", 200, None, None,
                  [finding_assets |-> Cardinality(gone_finding_links),
                   finding_comments |->
                       Cardinality(gone_finding_comments)])
    /\ UNCHANGED <<finding_templates, users, issued, program_years, engagements,
                   engagement_assets, timeline_events, requests, writer>>

\* the rows that exist only because of an engagement
OwnedRows ==
    Cardinality(DOMAIN engagement_assets) + Cardinality(DOMAIN findings)
    + Cardinality(DOMAIN finding_assets) + Cardinality(DOMAIN timeline_events)
    + Cardinality(DOMAIN comments)

\* the rows written through the Session
StoreRows ==
    Cardinality(DOMAIN engagements) + Cardinality(DOMAIN assets) + OwnedRows

NextStore ==
    \/ /\ StoreRows < MaxStoreRows
       /\ NextId(engagements) <= MaxStoreEngagementId
       /\ insert_engagement("Q2 2025 PCI Network Test", "PCI")
    \/ /\ StoreRows < MaxStoreRows
       /\ NextId(assets) <= MaxAssetId
       /\ insert_asset(web01)
    \/ /\ StoreRows < MaxStoreRows
       /\ NextId(engagement_assets) <= MaxEngagementAssetId
       /\ \E engagement_id \in DOMAIN engagements, asset_id \in DOMAIN assets :
             insert_engagement_asset(engagement_id, asset_id)
    \/ /\ StoreRows < MaxStoreRows
       /\ NextId(findings) <= MaxStoreFindingId
       /\ \E engagement_id \in DOMAIN engagements :
             insert_finding(engagement_id, "Unauthenticated Telnet Access",
                            "High")
    \/ /\ StoreRows < MaxStoreRows
       /\ NextId(finding_assets) <= MaxFindingAssetId
       /\ \E finding_id \in DOMAIN findings, asset_id \in DOMAIN assets :
             insert_finding_asset(finding_id, asset_id)
    \/ /\ StoreRows < MaxStoreRows
       /\ NextId(timeline_events) <= MaxTimelineEventId
       /\ \E engagement_id \in DOMAIN engagements :
             insert_timeline_event(engagement_id, "Kickoff", "Kickoff call")
    \/ /\ StoreRows < MaxStoreRows
       /\ NextId(comments) <= MaxCommentId
       /\ \E engagement_id \in DOMAIN engagements :
             insert_engagement_comment(engagement_id, 1, "Scope agreed")
    \/ /\ StoreRows < MaxStoreRows
       /\ NextId(comments) <= MaxCommentId
       /\ \E finding_id \in DOMAIN findings :
             insert_finding_comment(finding_id, 1, "Retest passed")
    \/ \E finding_id \in DOMAIN findings : delete_finding(finding_id)
    \/ \E engagement_id \in DOMAIN engagements :
          delete_engagement(engagement_id)

SpecStore == Init /\ [][NextStore]_vars

\* engagements that link the same assets: the tables an Asset is referenced
\* from, with more than one engagement
NextShared ==
    \/ /\ NextId(engagements) <= MaxSharingEngagementId
       /\ insert_engagement("Q2 2025 PCI Network Test", "PCI")
    \/ /\ NextId(assets) <= MaxAssetId
       /\ insert_asset(web01)
    \/ /\ NextId(engagement_assets) <= MaxSharedLinkId
       /\ \E engagement_id \in DOMAIN engagements, asset_id \in DOMAIN assets :
             insert_engagement_asset(engagement_id, asset_id)
    \/ /\ NextId(findings) <= MaxStoreFindingId
       /\ \E engagement_id \in DOMAIN engagements :
             insert_finding(engagement_id, "Unauthenticated Telnet Access",
                            "High")
    \/ /\ NextId(finding_assets) <= MaxFindingAssetId
       /\ \E finding_id \in DOMAIN findings, asset_id \in DOMAIN assets :
             insert_finding_asset(finding_id, asset_id)
    \/ \E engagement_id \in DOMAIN engagements :
          delete_engagement(engagement_id)

SpecShared == Init /\ [][NextShared]_vars

----------------------------------------------------------------------------
(* Properties of deletion *)

\* no child row names a parent row that does not exist
NoOrphans ==
    /\ \A l \in DOMAIN engagement_assets :
          engagement_assets[l].engagement_id \in DOMAIN engagements
    /\ \A f \in DOMAIN findings :
          findings[f].engagement_id \in DOMAIN engagements
    /\ \A t \in DOMAIN timeline_events :
          timeline_events[t].engagement_id \in DOMAIN engagements
    /\ \A l \in DOMAIN finding_assets :
          finding_assets[l].finding_id \in DOMAIN findings
    /\ \A c \in DOMAIN comments :
          /\ comments[c].engagement_id # None
                => comments[c].engagement_id \in DOMAIN engagements
          /\ comments[c].finding_id # None
                => comments[c].finding_id \in DOMAIN findings

\* C6: a step that deletes an engagement leaves no EngagementAsset, Finding,
\* TimelineEvent or Comment row of that engagement; a step that deletes a
\* finding, directly or through the engagement's cascade, leaves no
\* FindingAsset or Comment row of that finding; no row is left an orphan.
C6_CascadeDelete ==
    [][ /\ \A e \in DOMAIN engagements \ DOMAIN engagements' :
            /\ \A l \in DOMAIN engagement_assets' :
                  engagement_assets'[l].engagement_id # e
            /\ \A f \in DOMAIN findings' : findings'[f].engagement_id # e
            /\ \A t \in DOMAIN timeline_events' :
                  timeline_events'[t].engagement_id # e
            /\ \A c \in DOMAIN comments' : comments'[c].engagement_id # e
            /\ \A f \in DOMAIN findings :
                  findings[f].engagement_id = e => f \notin DOMAIN findings'
        /\ \A f \in DOMAIN findings \ DOMAIN findings' :
            /\ \A l \in DOMAIN finding_assets' :
                  finding_assets'[l].finding_id # f
            /\ \A c \in DOMAIN comments' : comments'[c].finding_id # f
        /\ NoOrphans' ]_vars

\* an engagement was deleted that had a row of every kind, its finding too
C6_Witness ==
    /\ resp.op = "delete_engagement"
    /\ resp.body.engagement_assets >= 1
    /\ resp.body.findings >= 1
    /\ resp.body.finding_assets >= 1
    /\ resp.body.timeline_events >= 1
    /\ resp.body.engagement_comments >= 1
    /\ resp.body.finding_comments >= 1

\* the engagement a FindingAsset row belongs to, through its finding
FindingAssetEngagement(l) == findings[finding_assets[l].finding_id].engagement_id

\* C7: a step that deletes an engagement deletes no Asset row, and leaves
\* every EngagementAsset and FindingAsset row of the other engagements as it
\* was, each still referencing an Asset that exists.
C7_AssetsOutliveEngagements ==
    [][ \A e \in DOMAIN engagements \ DOMAIN engagements' :
          /\ assets' = assets
          /\ \A l \in DOMAIN engagement_assets :
                engagement_assets[l].engagement_id # e
                  => /\ l \in DOMAIN engagement_assets'
                     /\ engagement_assets'[l] = engagement_assets[l]
                     /\ engagement_assets[l].asset_id \in DOMAIN assets'
          /\ \A l \in DOMAIN finding_assets :
                FindingAssetEngagement(l) # e
                  => /\ l \in DOMAIN finding_assets'
                     /\ finding_assets'[l] = finding_assets[l]
                     /\ finding_assets[l].asset_id \in DOMAIN assets' ]_vars

\* an engagement that linked the only asset was deleted, and another
\* engagement still links that asset, directly and through a finding
C7_Witness ==
    /\ resp.op = "delete_engagement"
    /\ resp.body.engagement_assets >= 1
    /\ Cardinality(DOMAIN assets) = 1
    /\ \E l \in DOMAIN engagement_assets, m \in DOMAIN finding_assets :
          /\ engagement_assets[l].asset_id \in DOMAIN assets
          /\ finding_assets[m].asset_id \in DOMAIN assets

----------------------------------------------------------------------------
(* The default identity: requests while users come and go (SpecIdentity) *)

\* session.delete(user); commit (the entity store; no router deletes users)
delete_user(user_id) ==
    /\ user_id \in DOMAIN users
    /\ users' = Remove(users, {user_id})
    /\ resp' = Committed
    /\ UNCHANGED <<finding_templates, issued, program_years, engagements, assets,
                   engagement_assets, findings, finding_assets,
                   timeline_events, comments, requests, writer>>

NextIdentity ==
    \/ /\ NextId(users) <= MaxIdentityUserId
       /\ \E username \in {"alice", "bob"}, with_key \in BOOLEAN :
             insert_user(username, "red", with_key)
    \/ \E user_id \in DOMAIN users : delete_user(user_id)
    \/ \E engagement_id \in {1}, x_api_key \in Credentials :
          get_engagement_report(engagement_id, x_api_key)

SpecIdentity == Init /\ [][NextIdentity]_vars

\* C11: a request that presents no credential is resolved to an existing
\* User row whenever the users table has a row, and is refused (500) only
\* when the table is empty.
C11_DefaultIdentity ==
    [][
        (resp'.op = "get_engagement_report" /\ resp'.x_api_key = None) =>
          /\ DOMAIN users # {} =>
                (resp'.user \in DOMAIN users /\ resp'.status \notin {401, 500})
          /\ DOMAIN users = {} =>
                (resp'.user = None /\ resp'.status = 500)
    ]_vars

\* a request without a credential was resolved to one of several users
C11_Witness ==
    /\ resp.op = "get_engagement_report"
    /\ resp.x_api_key = None
    /\ resp.user \in DOMAIN users
    /\ Cardinality(DOMAIN users) >= 2

----------------------------------------------------------------------------
(* The three forms of the report of an engagement (SpecExport) *)

\* findings as clients report them: any severity, a remediation status
\* given or left to the default
ExportFindingInputs ==
    {finding_in \in
        [title : {"Unauthenticated Telnet Access"},
         severity : SeverityInputs,
         description : {Null}, impact : {Null}, poc : {Null},
         recommendation : {Null}, attack_techniques : {Null},
         template_id : {None}, remediation_status : {"", "In-Progress"},
         remediation_owner : {Null}, due_date : {Null}] :
        finding_in.remediation_status = "In-Progress"
            => finding_in.severity = "High"}

NextExport ==
    \/ /\ NextId(engagements) <= MaxExportEngagementId
       /\ \E engagement_in \in EngagementInputs :
             /\ engagement_in.program_year = 2025
             /\ create_engagement(1, engagement_in)
    \/ /\ NextId(findings) <= MaxExportFindingId
       /\ \E engagement_id \in DOMAIN engagements,
             finding_in \in ExportFindingInputs :
             create_finding(engagement_id, 1, finding_in)
    \/ \E engagement_id \in 1..(MaxExportEngagementId + 1) :
          get_engagement_report(engagement_id, 1)
    \/ \E engagement_id \in 1..(MaxExportEngagementId + 1) :
          export_engagement_csv(engagement_id, 1)
    \/ \E engagement_id \in 1..(MaxExportEngagementId + 1) :
          export_engagement_markdown(engagement_id, 1)

SpecExport == Init /\ [][NextExport]_vars

\* the findings of an engagement, by ascending key
FindingsOf(e) ==
    Ascending({f \in DOMAIN findings : findings[f].engagement_id = e})

\* some line of the document is the given text
HasLine(md, line) == \E i \in 1..Len(md) : md[i] = line

\* the places of the lines that open with the given piece, in order
LinesOpening(md, piece) ==
    Ascending({i \in 1..Len(md) : Len(md[i]) > 1 /\ md[i][1] = piece})

RECURSIVE int(_)
\* the number a text of decimal digits denotes
int(text) ==
    IF text = <<>> THEN 0
    ELSE 10 * int(SubSeq(text, 1, Len(text) - 1))
         + (CHOOSE d \in 0..9 : Digits[d + 1] = text[Len(text)])

ReadOps ==
    {"get_engagement_report", "export_engagement_csv",
     "export_engagement_markdown"}

\* C13: the report, the CSV export and the Markdown export change no
\* table, whether the engagement they address exists or not.
C13_ReportsReadOnly ==
    [][resp'.op \in ReadOps => UNCHANGED tables]_vars

\* a report was returned for an engagement that has findings
C13_Witness ==
    /\ resp.op = "get_engagement_report"
    /\ resp.status = 200
    /\ Len(resp.body.findings) > 0

\* C14: on the same tables the report's findings list, the CSV data
\* records and the Markdown finding subsections are equally many, and the
\* i-th of each carries the same id or title, severity, status and
\* remediation status.
C14_FormsConsistent ==
    \A e \in DOMAIN engagements :
        LET items == EngagementReport(e).findings
            records == Tail(CsvRecords(e))
            md == MarkdownLines(e)
            heads == LinesOpening(md, "### ")
        IN  /\ Len(records) = Len(items)
            /\ Len(heads) = Len(items)
            /\ \A i \in 1..Len(items) :
                  /\ records[i][1] = str(items[i].id)
                  /\ records[i][2] = <<items[i].title>>
                  /\ records[i][3] = <<items[i].severity>>
                  /\ records[i][4] = <<items[i].status>>
                  /\ records[i][8] = <<items[i].remediation_status>>
                  /\ md[heads[i]] =
                        <<"### ">> \o str(i) \o <<". ", items[i].title>>
                  /\ md[heads[i] + 2] =
                        <<"- **Severity**: ", items[i].severity>>
                  /\ md[heads[i] + 3] =
                        <<"- **Status**: ", items[i].status>>
                  /\ md[heads[i] + 4] =
                        <<"- **Remediation Status**: ",
                          items[i].remediation_status>>

\* an export of an engagement whose two findings differ in severity and in
\* remediation status
C14_Witness ==
    /\ resp.op = "export_engagement_markdown"
    /\ resp.status = 200
    /\ \E e \in DOMAIN engagements :
          /\ Len(FindingsOf(e)) = 2
          /\ findings[FindingsOf(e)[1]].severity
                # findings[FindingsOf(e)[2]].severity
          /\ findings[FindingsOf(e)[1]].remediation_status
                # findings[FindingsOf(e)[2]].remediation_status

\* C15: the CSV export of an engagement with N findings is the header
\* record followed by N data records, the i-th for the i-th finding in
\* load order; with no finding it is the header record alone.
C15_CsvHeaderPlusFindings ==
    \A e \in DOMAIN engagements :
        LET records == CsvRecords(e)
            own == FindingsOf(e)
        IN  /\ Len(records) = 1 + Len(own)
            /\ records[1] = [i \in 1..Len(CsvHeader) |-> <<CsvHeader[i]>>]
            /\ \A i \in 1..Len(own) : records[i + 1][1] = str(own[i])

\* a CSV export of an engagement without findings was returned
C15_Witness ==
    /\ resp.op = "export_engagement_csv"
    /\ resp.status = 200
    /\ Len(resp.body.records) = 1
    /\ \E e \in DOMAIN engagements : FindingsOf(e) = <<>>

\* C16: the line after the Findings Summary heading is "No findings
\* recorded." exactly when the engagement has no finding, and that line is
\* nowhere else; with a finding the section holds the table.
C16_NoFindingsLine ==
    \A e \in DOMAIN engagements :
        LET md == MarkdownLines(e)
            own == FindingsOf(e)
        IN  \E h \in 1..Len(md) :
              /\ md[h] = <<"## Findings Summary">>
              /\ own = <<>> <=> md[h + 2] = <<"No findings recorded.">>
              /\ own = <<>> <=> HasLine(md, <<"No findings recorded.">>)
              /\ own # <<>> =>
                    /\ md[h + 2] = <<"| Severity | Count |">>
                    /\ md[h + 3] = <<"|----------|-------|">>

\* a Markdown export of an engagement without findings was returned
C16_Witness ==
    /\ resp.op = "export_engagement_markdown"
    /\ resp.status = 200
    /\ HasLine(resp.body.md_lines, <<"No findings recorded.">>)

\* the place of a severity in the fixed order, 0 for any other label
SeverityRank(severity) ==
    CASE severity = "Critical" -> 1
      [] severity = "High" -> 2
      [] severity = "Medium" -> 3
      [] severity = "Low" -> 4
      [] severity = "Info" -> 5
      [] OTHER -> 0

\* the count a row of the summary table shows
RowCount(row) == int(SubSeq(row, 4, Len(row) - 1))

\* C18: the rows of the summary table are in the order Critical, High,
\* Medium, Low, Info whatever the order the findings were created in, and a
\* severity has a row only with a count that is not zero.
C18_SummaryRowsCanonical ==
    \A e \in DOMAIN engagements :
        LET md == MarkdownLines(e)
            rows == LinesOpening(md, "| ")
        IN  /\ \A i \in 1..Len(rows) :
                  /\ SeverityRank(md[rows[i]][2]) > 0
                  /\ RowCount(md[rows[i]]) > 0
                  /\ RowCount(md[rows[i]]) =
                        Cardinality({f \in DOMAIN findings :
                            /\ findings[f].engagement_id = e
                            /\ findings[f].severity = md[rows[i]][2]})
            /\ \A i, j \in 1..Len(rows) :
                  i < j => SeverityRank(md[rows[i]][2])
                              < SeverityRank(md[rows[j]][2])

\* a High finding was created before a Critical one, and the export shows
\* the Critical row first
C18_Witness ==
    /\ resp.op = "export_engagement_markdown"
    /\ resp.status = 200
    /\ LinesOpening(resp.body.md_lines, "| ") # <<>>
    /\ \E e \in DOMAIN engagements :
          /\ Len(FindingsOf(e)) = 2
          /\ findings[FindingsOf(e)[1]].severity = "High"
          /\ findings[FindingsOf(e)[2]].severity = "Critical"
          /\ resp.body.md_lines = MarkdownLines(e)

RECURSIVE SumRows(_, _)
\* the sum of the counts of the rows at the given places
SumRows(md, rows) ==
    IF rows = <<>> THEN 0
    ELSE RowCount(md[Head(rows)]) + SumRows(md, Tail(rows))

\* C19: the counts of the summary table sum to the number of findings of
\* the engagement, a finding with any other severity being counted in a
\* row of its own.
C19_EveryFindingCounted ==
    \A e \in DOMAIN engagements :
        LET md == MarkdownLines(e)
        IN  SumRows(md, LinesOpening(md, "| ")) = Len(FindingsOf(e))

----------------------------------------------------------------------------
(* The Affected Assets column of the CSV export (SpecColumn) *)

\* assets with an identifier, without one, and with an empty one
AssetInputs ==
    {web01,
     [name |-> "db01", asset_type |-> "Host", identifier |-> Null],
     [name |-> "hmi01", asset_type |-> "OT-Device", identifier |-> ""]}

NextColumn ==
    \/ /\ NextId(engagements) <= MaxColumnEngagementId
       /\ \E engagement_in \in EngagementInputs :
             /\ engagement_in.program_year = 2025
             /\ create_engagement(1, engagement_in)
    \/ /\ NextId(findings) <= MaxColumnFindingId
       /\ \E engagement_id \in DOMAIN engagements,
             finding_in \in FindingInputs :
             /\ finding_in.severity = "High"
             /\ create_finding(engagement_id, 1, finding_in)
    \/ /\ NextId(assets) <= MaxColumnAssetId
       /\ \E asset_in \in AssetInputs : create_asset(1, asset_in)
    \/ /\ NextId(finding_assets) <= MaxColumnLinkId
       /\ \E finding_id \in DOMAIN findings, asset_id \in DOMAIN assets :
             insert_finding_asset(finding_id, asset_id)
    \/ \E engagement_id \in 1..(MaxColumnEngagementId + 1) :
          export_engagement_csv(engagement_id, 1)

SpecColumn == Init /\ [][NextColumn]_vars

\* the FindingAsset rows of a finding, by ascending key
LinksOf(f) ==
    Ascending({l \in DOMAIN finding_assets :
                  finding_assets[l].finding_id = f})

\* C17: the Affected Assets cell of a finding's record is "N/A" exactly
\* when the finding has no FindingAsset row; otherwise it is, for each link
\* in load order, the asset's name, " (", its identifier or "N/A" when it
\* has none, and ")", with ", " between one link and the next.
C17_AffectedAssetsColumn ==
    \A f \in DOMAIN findings :
        LET cell == CsvRecord(f)[13]
            links == LinksOf(f)
            asset(i) == assets[finding_assets[links[i]].asset_id]
        IN  /\ cell = <<"N/A">> <=> links = <<>>
            /\ links # <<>> =>
                  /\ Len(cell) = 5 * Len(links) - 1
                  /\ \A i \in 1..Len(links) :
                        /\ cell[5 * i - 4] = asset(i).name
                        /\ cell[5 * i - 3] = " ("
                        /\ cell[5 * i - 2] =
                              (IF Blank(asset(i).identifier) THEN "N/A"
                               ELSE asset(i).identifier)
                        /\ cell[5 * i - 1] = ")"
                        /\ i < Len(links) => cell[5 * i] = ", "

\* a CSV export was returned whose finding links an asset with an
\* identifier and an asset without one
C17_Witness ==
    /\ resp.op = "export_engagement_csv"
    /\ resp.status = 200
    /\ Len(resp.body.records) = 2
    /\ \E f \in DOMAIN findings :
          /\ resp.body.records[2][13] = CsvRecord(f)[13]
          /\ Len(LinksOf(f)) = 2
          /\ \E i, j \in 1..2 :
                /\ Blank(assets[finding_assets[LinksOf(f)[i]].asset_id]
                            .identifier)
                /\ ~Blank(assets[finding_assets[LinksOf(f)[j]].asset_id]
                            .identifier)

----------------------------------------------------------------------------
(* The optional sections of the Markdown export (SpecScope) *)

\* engagements created with no text, with every text, and with an empty
\* scope summary
ScopeEngagementInputs ==
    {engagement_in \in
        [name : {"Q2 2025 PCI Network Test"}, engagement_type : {"PCI"},
         business_unit : {Null}, start_date : {Null}, end_date : {Null},
         scope_summary : {Null, "", "Cardholder data environment"},
         objectives : {Null, "Reach the CDE from the office network"},
         methodology : {Null, "PTES"},
         program_year : {2025}] :
        (engagement_in.objectives = Null) = (engagement_in.methodology = Null)}

\* the texts written while reporting
ScopeEngagementUpdates ==
    {[exec_summary |-> "Two hosts accept Telnet",
      recommendations_overall |-> "Disable Telnet"]}

NextScope ==
    \/ /\ NextId(engagements) <= MaxScopeEngagementId
       /\ \E engagement_in \in ScopeEngagementInputs :
             create_engagement(1, engagement_in)
    \/ \E engagement_id \in DOMAIN engagements,
          data \in ScopeEngagementUpdates :
          /\ Blank(engagements[engagement_id].exec_summary)
          /\ update_engagement(engagement_id, 1, data)
    \/ /\ NextId(findings) <= MaxScopeFindingId
       /\ \E engagement_id \in DOMAIN engagements,
             finding_in \in FindingInputs :
             /\ finding_in.severity = "High"
             /\ create_finding(engagement_id, 1, finding_in)
    \/ /\ NextId(assets) <= MaxScopeAssetId
       /\ create_asset(1, web01)
    \/ /\ NextId(engagement_assets) <= MaxScopeLinkId
       /\ \E engagement_id \in DOMAIN engagements, asset_id \in DOMAIN assets :
             insert_engagement_asset(engagement_id, asset_id)
    \/ \E engagement_id \in 1..(MaxScopeEngagementId + 1) :
          export_engagement_markdown(engagement_id, 1)

SpecScope == Init /\ [][NextScope]_vars

\* the heading is a line of the document only if the condition holds
OnlyWhen(md, heading, condition) == HasLine(md, <<heading>>) => condition

\* C20: each optional heading of the Markdown export is a line of the
\* document only when its source is not empty, and "In-Scope Assets" is a
\* line only when an asset is linked and a "Scope" heading precedes it.
C20_OptionalSections ==
    \A e \in DOMAIN engagements :
        LET md == MarkdownLines(e)
            engagement == engagements[e]
            linked == {l \in DOMAIN engagement_assets :
                          engagement_assets[l].engagement_id = e}
        IN  /\ OnlyWhen(md, "## Executive Summary",
                        ~Blank(engagement.exec_summary))
            /\ OnlyWhen(md, "## Scope", ~Blank(engagement.scope_summary))
            /\ OnlyWhen(md, "## Objectives", ~Blank(engagement.objectives))
            /\ OnlyWhen(md, "## Methodology", ~Blank(engagement.methodology))
            /\ OnlyWhen(md, "## Detailed Findings", FindingsOf(e) # <<>>)
            /\ OnlyWhen(md, "## Overall Recommendations",
                        ~Blank(engagement.recommendations_overall))
            /\ OnlyWhen(md, "### In-Scope Assets", linked # {})
            /\ \A i \in 1..Len(md) :
                  md[i] = <<"### In-Scope Assets">> =>
                      \E j \in 1..(i - 1) : md[j] = <<"## Scope">>

----------------------------------------------------------------------------
(* Operations nested under an engagement identifier (SpecNested) *)

TimelineInputs == {[event_type |-> "Kickoff", summary |-> "Kickoff call"]}

CommentInputs == {[text |-> "Scope agreed"]}

NestedEngagementInputs ==
    {engagement_in \in EngagementInputs : engagement_in.program_year = 2025}

NestedFindingInputs ==
    {finding_in \in FindingInputs : finding_in.severity = "High"}

\* the identifiers a client addresses: those in use and one beyond
NestedIds == 1..(MaxNestedEngagementId + 1)

NextNested ==
    \/ /\ NextId(engagements) <= MaxNestedEngagementId
       /\ \E engagement_in \in NestedEngagementInputs :
             create_engagement(1, engagement_in)
    \/ \E e \in NestedIds : get_engagement(e, 1)
    \/ \E e \in NestedIds, data \in EngagementUpdates :
          update_engagement(e, 1, data)
    \/ \E e \in NestedIds : get_engagement_report(e, 1)
    \/ \E e \in NestedIds : export_engagement_csv(e, 1)
    \/ \E e \in NestedIds : export_engagement_markdown(e, 1)
    \/ /\ NextId(findings) <= MaxNestedFindingId
       /\ \E e \in NestedIds, finding_in \in NestedFindingInputs :
             create_finding(e, 1, finding_in)
    \/ \E e \in NestedIds : list_findings_for_engagement(e, 1)
    \/ /\ NextId(timeline_events) <= MaxNestedTimelineEventId
       /\ \E e \in NestedIds, event_in \in TimelineInputs :
             add_timeline_event(e, 1, event_in)
    \/ \E e \in NestedIds : list_timeline_events(e, 1)
    \/ /\ NextId(comments) <= MaxNestedCommentId
       /\ \E e \in NestedIds, comment_in \in CommentInputs :
             add_engagement_comment(e, 1, comment_in)

SpecNested == Init /\ [][NextNested]_vars

\* the step answers not-found: no document, no list, no table changed
NotFound ==
    /\ resp'.status = 404
    /\ resp'.body = Detail("Engagement not found")
    /\ UNCHANGED tables

\* C12: a step of any operation addressed to an engagement identifier
\* that names no engagement answers not-found and changes no table.
C12_UnknownEngagementNotFound ==
    [][
        \A e \in NestedIds :
            e \notin DOMAIN engagements =>
              /\ get_engagement(e, 1) => NotFound
              /\ (\E data \in EngagementUpdates :
                     update_engagement(e, 1, data)) => NotFound
              /\ get_engagement_report(e, 1) => NotFound
              /\ export_engagement_csv(e, 1) => NotFound
              /\ export_engagement_markdown(e, 1) => NotFound
              /\ (\E finding_in \in NestedFindingInputs :
                     create_finding(e, 1, finding_in)) => NotFound
              /\ list_findings_for_engagement(e, 1) => NotFound
              /\ (\E event_in \in TimelineInputs :
                     add_timeline_event(e, 1, event_in)) => NotFound
              /\ list_timeline_events(e, 1) => NotFound
              /\ (\E comment_in \in CommentInputs :
                     add_engagement_comment(e, 1, comment_in)) => NotFound
    ]_vars

----------------------------------------------------------------------------
(* The program year of an engagement (SpecYear) *)

\* the fields EngagementUpdate declares
EngagementUpdateFields ==
    {"name", "engagement_type", "business_unit", "start_date", "end_date",
     "scope_summary", "objectives", "methodology", "status", "exec_summary",
     "recommendations_overall"}

\* a schema that keeps every key of the body
EngagementUpdate_extra(body) == body

\* EngagementUpdate parsed from a JSON body, then .dict(exclude_unset=True):
\* the declared fields the body sets; a key the schema does not declare is
\* ignored
EngagementUpdate(body) ==
    [field \in DOMAIN body \cap EngagementUpdateFields |-> body[field]]

\* JSON bodies of PATCH /engagements/{engagement_id}: declared fields, and
\* keys that name the program year
UpdateBodies ==
    {[status |-> "In-Progress"],
     [program_year_id |-> 7],
     [program_year_id |-> None, name |-> "Renamed"],
     [program_year |-> 2030, status |-> "Completed"],
     [name |-> Null]}

\* the UPDATE statements written so far
Updates == SumValues([e \in DOMAIN engagements |-> engagements[e].updated_at])

NextYear ==
    \/ /\ NextId(engagements) <= MaxYearEngagementId
       /\ \E engagement_in \in EngagementInputs :
             create_engagement(1, engagement_in)
    \/ \E engagement_id \in 1..(MaxYearEngagementId + 1),
          body \in UpdateBodies :
          /\ Updates < MaxUpdatedAt
          /\ update_engagement(engagement_id, 1, EngagementUpdate(body))

SpecYear == Init /\ [][NextYear]_vars

\* every engagement names one program year, and the row is there
ResolvesProgramYear ==
    \A e \in DOMAIN engagements :
        /\ engagements[e].program_year_id # None
        /\ Cardinality({p \in DOMAIN program_years :
                           p = engagements[e].program_year_id}) = 1

\* C21: after every step each Engagement row has a program_year_id that is
\* not null and is the id of exactly one ProgramYear row, and no step
\* changes the program_year_id of an engagement that was there before.
C21_EngagementResolvesProgramYear ==
    [][ /\ ResolvesProgramYear'
        /\ \A e \in DOMAIN engagements \cap DOMAIN engagements' :
              engagements'[e].program_year_id = engagements[e].program_year_id
      ]_vars

\* C21 witness: two engagements of different years, and an update whose
\* body named a program_year_id went through
C21_Witness ==
    /\ resp.op = "update_engagement"
    /\ resp.status = 200
    /\ resp.body.name = "Renamed"
    /\ Cardinality(DOMAIN program_years) = 2
    /\ Cardinality({engagements[e].program_year_id :
                       e \in DOMAIN engagements}) = 2

----------------------------------------------------------------------------
(* update_engagement as a partial update (SpecYear) *)

\* the tables other than engagements
OtherTables ==
    <<users, issued, program_years, assets, engagement_assets, findings,
      finding_assets, timeline_events, comments, finding_templates>>

\* the step sets the fields of data on engagement e and leaves the rest as
\* it was, the exempt fields of e aside
PartialUpdate(e, data, exempt) ==
    /\ DOMAIN engagements' = DOMAIN engagements
    /\ \A field \in DOMAIN data : engagements'[e][field] = data[field]
    /\ \A field \in DOMAIN engagements[e] \ (DOMAIN data \cup exempt) :
          engagements'[e][field] = engagements[e][field]
    /\ \A other \in DOMAIN engagements \ {e} :
          engagements'[other] = engagements[other]
    /\ UNCHANGED OtherTables

\* the engagements a step adds have status Planned
CreatedPlanned ==
    \A e \in DOMAIN engagements' \ DOMAIN engagements :
        engagements'[e].status = "Planned"

----------------------------------------------------------------------------
(* Comments and their authors (SpecThread) *)

NextThread ==
    \/ /\ NextId(users) <= MaxThreadUserId
       /\ insert_user("alice", "red", TRUE)
    \/ /\ NextId(engagements) <= MaxThreadEngagementId
       /\ \E engagement_in \in NestedEngagementInputs :
             create_engagement(1, engagement_in)
    \/ /\ NextId(comments) <= MaxThreadCommentId
       /\ \E engagement_id \in 1..(MaxThreadEngagementId + 1),
             x_api_key \in Credentials, comment_in \in CommentInputs :
             add_engagement_comment(engagement_id, x_api_key, comment_in)

SpecThread == Init /\ [][NextThread]_vars

\* the comment has one author, a user that exists, and one parent
OneAuthorOneParent(c) ==
    /\ comments[c].user_id # None
    /\ comments[c].user_id \in DOMAIN users
    /\ (comments[c].engagement_id = None) # (comments[c].finding_id = None)

\* C24: after every step each Comment row has a user_id that is not null
\* and is the id of a User row, and exactly one of its engagement_id and
\* finding_id is not null; the comment a step adds has the user resolved
\* for that request as its user_id.
C24_CommentAuthorAndParent ==
    [][ /\ \A c \in DOMAIN comments' : OneAuthorOneParent(c)'
        /\ \A c \in DOMAIN comments' \ DOMAIN comments :
              comments'[c].user_id = resp'.user
      ]_vars

\* C24 witness: a comment sent without a key, authored by the default user,
\* after a comment of another user
C24_Witness ==
    /\ resp.op = "add_engagement_comment"
    /\ resp.status = 201
    /\ resp.x_api_key = None
    /\ comments[resp.body.id].user_id = 1
    /\ \E c \in DOMAIN comments : comments[c].user_id = 2

----------------------------------------------------------------------------
(* The enumerations of a finding (Spec) *)

\* the closed enumeration of Finding.status (a comment in the source)
FindingStatuses ==
    {"New", "Validated", "Exploited", "Mitigated", "False-Positive"}

\* C22: a create_finding step whose severity is none of Info, Low, Medium,
\* High, Critical is answered with a validation error and changes no
\* table, and after every step each Finding row has a severity among the
\* five and a status among New, Validated, Exploited, Mitigated,
\* False-Positive.
C22_ClosedEnumerations ==
    [][ /\ \A e \in 1..(MaxEngagementId + 1), finding_in \in FindingInputs :
              (/\ finding_in.severity \notin CanonicalSeverities
               /\ create_finding(e, 1, finding_in)
               /\ e \in DOMAIN engagements)
                  => (resp'.status = 422 /\ UNCHANGED tables)
        /\ \A f \in DOMAIN findings' :
              /\ findings'[f].severity \in CanonicalSeverities
              /\ findings'[f].status \in FindingStatuses
      ]_vars

----------------------------------------------------------------------------
(* Finding templates: models.py FindingTemplate,                           *)
(* routers/finding_templates.py                                            *)

\* the columns of models.FindingTemplate
FindingTemplateDefaults ==
    [title |-> Null, category |-> Null, severity_default |-> Null,
     description |-> Null, impact |-> Null, recommendation |-> Null,
     cwe_id |-> Null, attack_techniques |-> Null, references |-> Null,
     created_by_id |-> None]

\* POST /finding-templates/
create_finding_template(x_api_key, template_in) ==
    \E auth \in get_current_user(x_api_key) :
        \/ Rejected("create_finding_template", x_api_key, auth)
        \/ /\ auth.status = 200
           /\ finding_templates' = Insert(finding_templates,
                  Row(FindingTemplateDefaults,
                      [title |-> template_in.title,
                       category |-> template_in.category,
                       severity_default |-> template_in.severity_default,
                       description |-> template_in.description,
                       impact |-> template_in.impact,
                       recommendation |-> template_in.recommendation,
                       cwe_id |-> template_in.cwe_id,
                       attack_techniques |-> template_in.attack_techniques,
                       references |-> template_in.references,
                       created_by_id |-> auth.user]))
           /\ resp' = Response("create_finding_template", 201, x_api_key,
                               auth.user, [id |-> NextId(finding_templates)])
           /\ UNCHANGED <<users, issued, program_years, engagements, assets,
                          engagement_assets, findings, finding_assets,
                          timeline_events, comments, requests, writer>>

\* PATCH /finding-templates/{template_id}; data is
\* template_in.dict(exclude_unset=True)
update_finding_template(template_id, x_api_key, data) ==
    \E auth \in get_current_user(x_api_key) :
        \/ Rejected("update_finding_template", x_api_key, auth)
        \/ /\ auth.status = 200
           /\ template_id \notin DOMAIN finding_templates
           /\ resp' = Response("update_finding_template", 404, x_api_key,
                               auth.user,
                               Detail("Finding template not found"))
           /\ UNCHANGED <<tables, requests, writer>>
        \/ /\ auth.status = 200
           /\ template_id \in DOMAIN finding_templates
           /\ SetAttrs(finding_templates[template_id], data).title = Null
           /\ resp' = Response("update_finding_template", 500, x_api_key,
                               auth.user, Detail("Internal Server Error"))
           /\ UNCHANGED <<tables, requests, writer>>
        \/ /\ auth.status = 200
           /\ template_id \in DOMAIN finding_templates
           /\ SetAttrs(finding_templates[template_id], data).title # Null
           /\ finding_templates' =
                  [finding_templates EXCEPT ![template_id] =
                      SetAttrs(finding_templates[template_id], data)]
           /\ resp' = Response("update_finding_template", 200, x_api_key,
                               auth.user, [id |-> template_id])
           /\ UNCHANGED <<users, issued, program_years, engagements, assets,
                          engagement_assets, findings, finding_assets,
                          timeline_events, comments, requests, writer>>

\* a delete that takes the findings made from the template with it
delete_finding_template_cascade(template_id, x_api_key) ==
    \E auth \in get_current_user(x_api_key) :
        /\ auth.status = 200
        /\ template_id \in DOMAIN finding_templates
        /\ finding_templates' = Remove(finding_templates, {template_id})
        /\ findings' = Remove(findings, {f \in DOMAIN findings :
                              findings[f].template_id = template_id})
        /\ resp' = Response("delete_finding_template", 204, x_api_key,
                            auth.user, None)
        /\ UNCHANGED <<users, issued, program_years, engagements, assets,
                       engagement_assets, finding_assets, timeline_events,
                       comments, requests, writer>>

\* DELETE /finding-templates/{template_id}: the row is deleted; the
\* database does not enforce the foreign key of Finding.template_id and
\* FindingTemplate has no relationship to its findings, so no other row is
\* written; the 204 response has no body
delete_finding_template(template_id, x_api_key) ==
    \E auth \in get_current_user(x_api_key) :
        \/ Rejected("delete_finding_template", x_api_key, auth)
        \/ /\ auth.status = 200
           /\ template_id \notin DOMAIN finding_templates
           /\ resp' = Response("delete_finding_template", 404, x_api_key,
                               auth.user,
                               Detail("Finding template not found"))
           /\ UNCHANGED <<tables, requests, writer>>
        \/ /\ auth.status = 200
           /\ template_id \in DOMAIN finding_templates
           /\ finding_templates' = Remove(finding_templates, {template_id})
           /\ resp' = Response("delete_finding_template", 204, x_api_key,
                               auth.user, None)
           /\ UNCHANGED <<users, issued, program_years, engagements, assets,
                          engagement_assets, findings, finding_assets,
                          timeline_events, comments, requests, writer>>

----------------------------------------------------------------------------
(* Findings and the templates they name (SpecTemplate) *)

TemplateInputs ==
    {[title |-> "SQL Injection", category |-> "Web",
      severity_default |-> "High",
      description |-> "User input reaches a SQL statement",
      impact |-> "Data disclosure",
      recommendation |-> "Use parameterised queries",
      cwe_id |-> "CWE-89", attack_techniques |-> "T1190",
      references |-> Null]}

TemplateUpdates == {[description |-> "Revised description"]}

\* create-finding requests that name no template, a template identifier,
\* and give their own description or leave it unset
TemplateFindingInputs ==
    [title : {"Unauthenticated Telnet Access"}, severity : {"High"},
     description : {Null, "Telnet accepts any login"}, impact : {Null},
     poc : {Null}, recommendation : {Null}, attack_techniques : {Null},
     template_id : {None} \cup 1..(MaxTemplateId + 1),
     remediation_status : {""}, remediation_owner : {Null},
     due_date : {Null}]

\* the template identifiers a client addresses: those in use and one beyond
TemplateIds == 1..(MaxTemplateId + 1)

NextTemplate ==
    \/ /\ NextId(engagements) <= MaxTemplateEngagementId
       /\ \E engagement_in \in NestedEngagementInputs :
             create_engagement(1, engagement_in)
    \/ /\ NextId(finding_templates) <= MaxTemplateId
       /\ \E template_in \in TemplateInputs :
             create_finding_template(1, template_in)
    \/ \E template_id \in TemplateIds, data \in TemplateUpdates :
          update_finding_template(template_id, 1, data)
    \/ \E template_id \in TemplateIds :
          delete_finding_template(template_id, 1)
    \/ /\ NextId(findings) <= MaxTemplateFindingId
       /\ \E engagement_id \in DOMAIN engagements,
             finding_in \in TemplateFindingInputs :
             create_finding(engagement_id, 1, finding_in)

SpecTemplate == Init /\ [][NextTemplate]_vars

\* the text fields a template offers to a finding
SeededFields == {"description", "impact", "recommendation"}

\* C25: a create_finding step that succeeds with a template_id naming a
\* FindingTemplate row stores, for each of description, impact and
\* recommendation the request leaves unset, the template's text in the
\* new finding.
C25_SeededFromTemplate ==
    [][ \A e \in DOMAIN engagements, finding_in \in TemplateFindingInputs :
            (/\ finding_in.template_id \in DOMAIN finding_templates
             /\ create_finding(e, 1, finding_in)
             /\ resp'.status = 201)
                => \A field \in SeededFields :
                      finding_in[field] = Null
                          => findings'[NextId(findings)][field]
                                = finding_templates[finding_in.template_id][field]
      ]_vars

\* the tables other than finding_templates and findings
TablesBesideTemplates ==
    <<users, issued, program_years, engagements, assets, engagement_assets,
      finding_assets, timeline_events, comments>>

\* C26: a delete_finding_template step addressed to a template that exists
\* removes that row and nothing else: every other template, every Finding
\* row with all its fields and every other table stay as they were; a step
\* addressed to an identifier that names no template answers not-found and
\* changes no table.
C26_TemplateDeleteNoCascade ==
    [][ \A t \in TemplateIds :
            delete_finding_template(t, 1) =>
                IF t \in DOMAIN finding_templates
                THEN /\ resp'.status = 204
                     /\ DOMAIN finding_templates'
                           = DOMAIN finding_templates \ {t}
                     /\ \A other \in DOMAIN finding_templates' :
                           finding_templates'[other]
                               = finding_templates[other]
                     /\ findings' = findings
                     /\ UNCHANGED TablesBesideTemplates
                ELSE /\ resp'.status = 404
                     /\ resp'.body = Detail("Finding template not found")
                     /\ UNCHANGED tables
      ]_vars

\* C26 witness: a template was deleted, a finding still carries the
\* identifier of a template that is gone, and another template remains
C26_Witness ==
    /\ resp.op = "delete_finding_template"
    /\ resp.status = 204
    /\ finding_templates # Empty
    /\ \E f \in DOMAIN findings :
          /\ findings[f].template_id # None
          /\ findings[f].template_id \notin DOMAIN finding_templates
          /\ findings[f].description = "Telnet accepts any login"

\* C30: in every state each Finding whose template_id is not null names a
\* FindingTemplate row that exists.
C30_TemplateReferenceResolves ==
    \A f \in DOMAIN findings :
        findings[f].template_id # None
            => findings[f].template_id \in DOMAIN finding_templates

----------------------------------------------------------------------------
(* Bootstrap: main.py seed_user and scripts/seed_db.py seed (SpecBoot) *)

\* the database file as Base.metadata.create_all leaves it: every table
\* empty, no token generated yet
InitBoot ==
    /\ users = Empty
    /\ issued = 0
    /\ program_years = Empty
    /\ engagements = Empty
    /\ assets = Empty
    /\ engagement_assets = Empty
    /\ findings = Empty
    /\ finding_assets = Empty
    /\ timeline_events = Empty
    /\ comments = Empty
    /\ finding_templates = Empty
    /\ requests = [r \in 1..MaxRequests |-> [pc |-> "idle"]]
    /\ writer = None
    /\ resp = Response("startup", 200, None, None, Detail("create_all"))

\* the User row both seeds insert, with a fresh secrets.token_urlsafe(32)
SeededAdmin ==
    [username |-> "malcolm", role |-> "admin", api_key |-> issued + 1]

\* seed_user(): insert the user unless the users table has a row
seed_user ==
    /\ IF users = Empty
       THEN /\ TokenLeft
            /\ users' = Insert(users, SeededAdmin)
            /\ issued' = issued + 1
       ELSE UNCHANGED <<users, issued>>
    /\ resp' = Response("seed_user", 200, None, None, Detail("seed_user"))
    /\ UNCHANGED <<finding_templates, program_years, engagements, assets, engagement_assets,
                   findings, finding_assets, timeline_events, comments,
                   requests, writer>>

\* a seed script that gives the admin it finds a new key
seed_rekey(year) ==
    /\ TokenLeft
    /\ users' =
          IF \E u \in DOMAIN users : users[u].username = "malcolm"
          THEN [u \in DOMAIN users |->
                   IF users[u].username = "malcolm"
                   THEN [users[u] EXCEPT !.api_key = issued + 1]
                   ELSE users[u]]
          ELSE Insert(users, SeededAdmin)
    /\ issued' = issued + 1
    /\ program_years' =
          IF \E p \in DOMAIN program_years : program_years[p].year = year
          THEN program_years
          ELSE Insert(program_years, [year |-> year])
    /\ resp' = Response("seed", 200, None, None, Detail("seed"))
    /\ UNCHANGED <<finding_templates, engagements, assets, engagement_assets,
                   findings, finding_assets, timeline_events, comments,
                   requests, writer>>

\* seed(): insert the admin unless a user named malcolm exists, then
\* insert the ProgramYear of the current year unless it exists; year is
\* datetime.utcnow().year
seed(year) ==
    /\ IF \E u \in DOMAIN users : users[u].username = "malcolm"
       THEN UNCHANGED <<users, issued>>
       ELSE /\ TokenLeft
            /\ users' = Insert(users, SeededAdmin)
            /\ issued' = issued + 1
    /\ program_years' =
          IF \E p \in DOMAIN program_years : program_years[p].year = year
          THEN program_years
          ELSE Insert(program_years, [year |-> year])
    /\ resp' = Response("seed", 200, None, None, Detail("seed"))
    /\ UNCHANGED <<finding_templates, engagements, assets, engagement_assets,
                   findings, finding_assets, timeline_events, comments,
                   requests, writer>>

NextBoot ==
    \/ seed_user
    \/ \E year \in Years : seed(year)
    \/ \E user_id \in 1..2, x_api_key \in Credentials :
          regenerate_api_key(user_id, x_api_key)
    \/ /\ NextId(engagements) <= MaxBootEngagementId
       /\ \E engagement_in \in EngagementInputs, x_api_key \in Credentials :
             create_engagement(x_api_key, engagement_in)

SpecBoot == InitBoot /\ [][NextBoot]_vars

\* what a seed run does to the users: on an empty table the one admin row,
\* on any other nothing
Bootstrapped ==
    IF users = Empty
    THEN /\ DOMAIN users' = {1}
         /\ users'[1].username = "malcolm"
         /\ users'[1].role = "admin"
    ELSE users' = users

\* C28: a run of seed_user or of seed on a database without users leaves
\* the one admin user; a run of either on a database that has a user
\* creates no user and leaves every user's credential and role as they
\* were, so any sequence of runs leaves the users the first run left.
C28_BootstrapIdempotent ==
    [][ /\ seed_user => Bootstrapped
        /\ \A year \in Years : seed(year) => Bootstrapped
        /\ Cardinality(DOMAIN users') <= 1
      ]_vars

\* C28 witness: the seed script ran after seed_user had made the admin and
\* the admin's key had been regenerated
C28_Witness ==
    /\ resp.op = "seed"
    /\ DOMAIN users = {1}
    /\ users[1].api_key = 2
    /\ issued = 2
    /\ program_years # Empty

----------------------------------------------------------------------------
(* The findings listing (SpecListing) *)

\* create-finding requests of three canonical severities
ListingFindingInputs ==
    {[finding_in EXCEPT !.severity = severity] :
        finding_in \in NestedFindingInputs,
        severity \in {"Critical", "High", "Low"}}

NextListing ==
    \/ /\ NextId(engagements) <= MaxListingEngagementId
       /\ \E engagement_in \in NestedEngagementInputs :
             create_engagement(1, engagement_in)
    \/ /\ NextId(findings) <= MaxListingFindingId
       /\ \E engagement_id \in DOMAIN engagements,
             finding_in \in ListingFindingInputs :
             create_finding(engagement_id, 1, finding_in)
    \/ \E engagement_id \in 1..(MaxListingEngagementId + 1) :
          list_findings_for_engagement(engagement_id, 1)

SpecListing == Init /\ [][NextListing]_vars

\* the listing holds each finding of engagement e once and no other
ListsFindingsOf(e, items) ==
    /\ Len(items) = Len(FindingsOf(e))
    /\ {items[i].id : i \in 1..Len(items)}
          = {f \in DOMAIN findings : findings[f].engagement_id = e}

\* of two entries with different canonical severities the more severe one
\* comes first
MostSevereFirst(items) ==
    \A i, j \in 1..Len(items) :
        (/\ i < j
         /\ items[i].severity \in CanonicalSeverities
         /\ items[j].severity \in CanonicalSeverities
         /\ items[i].severity # items[j].severity)
            => SeverityRank(items[i].severity)
                  < SeverityRank(items[j].severity)

\* C29: a list_findings_for_engagement step that succeeds returns exactly
\* the findings of the engagement addressed, and of two returned findings
\* with different canonical severities the more severe one (Critical, High,
\* Medium, Low, Info) comes first.
C29_ListingBySeverity ==
    [][ \A e \in DOMAIN engagements :
            (list_findings_for_engagement(e, 1) /\ resp'.status = 200)
                => /\ ListsFindingsOf(e, resp'.body.items)
                   /\ MostSevereFirst(resp'.body.items)
      ]_vars

====
